---- MODULE Spec2Model ----
(***************************************************************************)
(* Byte-Unit (magiclen/Byte-Unit), wide (feature "u128") build.            *)
(*                                                                         *)
(* Bit and Byte wrap a u128 magnitude, Unit is a closed enumeration, and   *)
(* parsing / recoverable-unit search go through rust_decimal's Decimal     *)
(* (96-bit mantissa, scale 0..28).  The magnitudes of the program (10^27,  *)
(* 2^64, 2^96, 2^128) do not fit the integers of the model checker, so an  *)
(* unsigned integer is a sequence of decimal digits, least significant     *)
(* digit first, without leading zeros (zero is the empty sequence).  The   *)
(* arithmetic below is exact; the width of a machine type is imposed where *)
(* the program imposes it (checked_add, checked_mul, Decimal overflow).    *)
(***************************************************************************)
EXTENDS Integers, Sequences, FiniteSets, TLC

(***************************************************************************)
(* Exact unsigned arithmetic on digit sequences                            *)
(***************************************************************************)
Zero == << >>

RECURSIVE Norm(_)
Norm(s) == IF s = << >> THEN s
           ELSE IF s[Len(s)] = 0 THEN Norm(SubSeq(s, 1, Len(s) - 1))
           ELSE s

RECURSIVE FromInt(_)
FromInt(n) == IF n = 0 THEN << >> ELSE <<n % 10>> \o FromInt(n \div 10)

RECURSIVE ToInt(_)
ToInt(s) == IF s = << >> THEN 0 ELSE s[1] + 10 * ToInt(Tail(s))

One == FromInt(1)

Digit(s, i) == IF i <= Len(s) THEN s[i] ELSE 0

\* -1, 0, 1 as a < b, a = b, a > b
RECURSIVE CmpFrom(_, _, _)
CmpFrom(a, b, i) ==
    IF i = 0 THEN 0
    ELSE IF a[i] < b[i] THEN -1
    ELSE IF a[i] > b[i] THEN 1
    ELSE CmpFrom(a, b, i - 1)

Cmp(a, b) ==
    IF Len(a) < Len(b) THEN -1
    ELSE IF Len(a) > Len(b) THEN 1
    ELSE CmpFrom(a, b, Len(a))

Lt(a, b) == Cmp(a, b) = -1
Le(a, b) == Cmp(a, b) <= 0
Gt(a, b) == Cmp(a, b) = 1
Ge(a, b) == Cmp(a, b) >= 0

RECURSIVE AddRec(_, _, _, _, _)
AddRec(a, b, i, carry, acc) ==
    IF i > Len(a) /\ i > Len(b)
    THEN IF carry = 0 THEN acc ELSE Append(acc, carry)
    ELSE LET t   == Digit(a, i) + Digit(b, i) + carry
             nxt == Append(acc, t % 10)
         IN IF Len(nxt) = i THEN AddRec(a, b, i + 1, t \div 10, nxt) ELSE << >>

Add(a, b) == AddRec(a, b, 1, 0, << >>)

\* a - b for a >= b
RECURSIVE SubRec(_, _, _, _, _)
SubRec(a, b, i, borrow, acc) ==
    IF i > Len(a) THEN Norm(acc)
    ELSE LET t   == a[i] - Digit(b, i) - borrow
             nxt == Append(acc, IF t < 0 THEN t + 10 ELSE t)
         IN IF Len(nxt) = i THEN SubRec(a, b, i + 1, IF t < 0 THEN 1 ELSE 0, nxt) ELSE << >>

Sub(a, b) == SubRec(a, b, 1, 0, << >>)

\* a * k for a machine-sized k (0 <= k <= 10^8)
RECURSIVE MulSmallRec(_, _, _, _, _)
MulSmallRec(a, k, i, carry, acc) ==
    IF i > Len(a) THEN acc \o FromInt(carry)
    ELSE LET t   == a[i] * k + carry
             nxt == Append(acc, t % 10)
         IN IF Len(nxt) = i THEN MulSmallRec(a, k, i + 1, t \div 10, nxt) ELSE << >>

MulSmall(a, k) == IF k = 0 \/ a = << >> THEN << >> ELSE MulSmallRec(a, k, 1, 0, << >>)

\* a * 10^n
ShiftUp(a, n) == IF a = << >> THEN a ELSE [i \in 1..n |-> 0] \o a

\* floor(a / 10^n)
ShiftDown(a, n) == IF n >= Len(a) THEN << >> ELSE SubSeq(a, n + 1, Len(a))

\* a mod 10^n
LowDigits(a, n) == IF n >= Len(a) THEN a ELSE Norm(SubSeq(a, 1, n))

\* the digits lo..hi of a as a machine integer (hi - lo < 9)
RECURSIVE Chunk(_, _, _)
Chunk(a, lo, hi) == IF hi < lo THEN 0 ELSE Digit(a, lo) + 10 * Chunk(a, lo + 1, hi)

\* a * b, eight digits of a at a time
RECURSIVE MulRec(_, _, _, _)
MulRec(a, b, lo, acc) ==
    IF lo > Len(a) THEN acc
    ELSE LET c   == Chunk(a, lo, lo + 7)
             nxt == IF c = 0 THEN acc ELSE Add(acc, ShiftUp(MulSmall(b, c), lo - 1))
         IN IF Len(nxt) >= 0 THEN MulRec(a, b, lo + 8, nxt) ELSE << >>

Mul(a, b) == IF Len(a) <= Len(b) THEN MulRec(a, b, 1, << >>) ELSE MulRec(b, a, 1, << >>)

\* a divided by a machine-sized k (0 < k <= 10^8), from the most significant digit
RECURSIVE DivSmallRec(_, _, _, _, _)
DivSmallRec(a, k, i, r, q) ==
    IF i = 0 THEN [q |-> Norm(q), r |-> FromInt(r)]
    ELSE LET t  == r * 10 + a[i]
             q2 == <<t \div k>> \o q
         IN IF Len(q2) > 0 THEN DivSmallRec(a, k, i - 1, t % k, q2) ELSE [q |-> << >>, r |-> << >>]

DivSmall(a, k) == DivSmallRec(a, k, Len(a), 0, << >>)

\* the largest k in 0..9 with d * k <= r
RECURSIVE QuotDigit(_, _, _)
QuotDigit(r, d, k) ==
    IF k = 0 THEN 0
    ELSE IF Le(MulSmall(d, k), r) THEN k
    ELSE QuotDigit(r, d, k - 1)

\* long division of a by d > 0, from the most significant digit of a
RECURSIVE DivRec(_, _, _, _, _)
DivRec(a, d, i, r, q) ==
    IF i = 0 THEN [q |-> Norm(q), r |-> r]
    ELSE LET r1 == Norm(<<a[i]>> \o r)
             k  == IF Lt(r1, d) THEN 0 ELSE QuotDigit(r1, d, 9)
             r2 == IF k = 0 THEN r1 ELSE Sub(r1, MulSmall(d, k))
             q2 == <<k>> \o q
         IN IF Len(r2) + Len(q2) >= 0 THEN DivRec(a, d, i - 1, r2, q2) ELSE [q |-> << >>, r |-> << >>]

TrailingZeros(d) == IF d = << >> THEN 0
                    ELSE (CHOOSE i \in 1..Len(d) : d[i] # 0 /\ \A j \in 1..(i - 1) : d[j] = 0) - 1

TwoTo24 == 2 ^ 24

\* floor(a / d) and a mod d for d > 0.  A small divisor is divided by directly;
\* powers of ten and of 2^24 in the divisor are divided out first
\* (floor(floor(a / x) / y) = floor(a / (x * y))); anything else is long division.
RECURSIVE DivMod(_, _)
DivMod(a, d) ==
    IF Lt(a, d) THEN [q |-> << >>, r |-> a]
    ELSE IF Len(d) <= 8 THEN DivSmall(a, ToInt(d))
    ELSE IF TrailingZeros(d) > 0
    THEN LET z == TrailingZeros(d)
             t == DivMod(ShiftDown(a, z), ShiftDown(d, z))
         IN [q |-> t.q, r |-> Add(ShiftUp(t.r, z), LowDigits(a, z))]
    ELSE IF DivSmall(d, TwoTo24).r = << >>
    THEN LET s == DivSmall(a, TwoTo24)
             t == DivMod(s.q, DivSmall(d, TwoTo24).q)
         IN [q |-> t.q, r |-> Add(MulSmall(t.r, TwoTo24), s.r)]
    ELSE DivRec(a, d, Len(a), << >>, << >>)

Div(a, d) == DivMod(a, d).q
Mod(a, d) == DivMod(a, d).r

Pow10(n) == ShiftUp(One, n)

\* 2^n, 24 bits at a time
RECURSIVE Pow2(_)
Pow2(n) == IF n <= 24 THEN FromInt(2 ^ n) ELSE MulSmall(Pow2(n - 24), TwoTo24)


(***************************************************************************)
(* Machine integers                                                        *)
(***************************************************************************)
U64_MAX  == Sub(Pow2(64), One)
U128_MAX == Sub(Pow2(128), One)

\* usize::MAX on a 64-bit target
USIZE_MAX == U64_MAX

None == [some |-> FALSE]
Some(v) == [some |-> TRUE, v |-> v]
Ok(v) == [ok |-> TRUE, v |-> v]
Err(e) == [ok |-> FALSE, err |-> e]

\* u128::checked_add, checked_sub, checked_mul, checked_div
checked_add(a, b) == LET v == Add(a, b) IN IF Le(v, U128_MAX) THEN Some(v) ELSE None
checked_sub(a, b) == IF Ge(a, b) THEN Some(Sub(a, b)) ELSE None
checked_mul(a, b) == LET v == Mul(a, b) IN IF Le(v, U128_MAX) THEN Some(v) ELSE None
checked_div(a, b) == IF b = Zero THEN None ELSE Some(Div(a, b))

\* a << n and a >> n on values that stay inside the type
Shl(a, n) == Mul(a, Pow2(n))
Shr(a, n) == Div(a, Pow2(n))

\* x & m for 0 <= x, m < 16
BitAnd4(x, m) ==
    LET bit(v, i) == (v \div (2 ^ i)) % 2
    IN bit(x, 0) * bit(m, 0) + 2 * bit(x, 1) * bit(m, 1)
       + 4 * bit(x, 2) * bit(m, 2) + 8 * bit(x, 3) * bit(m, 3)

\* a & m for a mask m < 16: only the low four bits of a matter
BitAndSmall(a, m) == BitAnd4(ToInt(Mod(a, FromInt(16))), m)

\* a signed integer (i128, i64): sign and magnitude
Signed(neg, mag) == [neg |-> neg, mag |-> mag]

(***************************************************************************)
(* Unit                                                                    *)
(***************************************************************************)
Prefixes == <<"K", "M", "G", "T", "P", "E", "Z", "Y">>

BitUnits == {"Bit", "Kbit", "Kibit", "Mbit", "Mibit", "Gbit", "Gibit", "Tbit", "Tibit",
             "Pbit", "Pibit", "Ebit", "Eibit", "Zbit", "Zibit", "Ybit", "Yibit"}
ByteUnits == {"B", "KB", "KiB", "MB", "MiB", "GB", "GiB", "TB", "TiB",
              "PB", "PiB", "EB", "EiB", "ZB", "ZiB", "YB", "YiB"}
Unit == BitUnits \cup ByteUnits

as_bits_u128_match(unit) ==
    CASE unit = "Bit"   -> One
      [] unit = "B"     -> Shl(One, 3)
      [] unit = "Kbit"  -> Pow10(3)
      [] unit = "Kibit" -> Shl(One, 10)
      [] unit = "KB"    -> Shl(Pow10(3), 3)
      [] unit = "KiB"   -> Shl(Shl(One, 10), 3)
      [] unit = "Mbit"  -> Pow10(6)
      [] unit = "Mibit" -> Shl(One, 20)
      [] unit = "MB"    -> Shl(Pow10(6), 3)
      [] unit = "MiB"   -> Shl(Shl(One, 20), 3)
      [] unit = "Gbit"  -> Pow10(9)
      [] unit = "Gibit" -> Shl(One, 30)
      [] unit = "GB"    -> Shl(Pow10(9), 3)
      [] unit = "GiB"   -> Shl(Shl(One, 30), 3)
      [] unit = "Tbit"  -> Pow10(12)
      [] unit = "Tibit" -> Shl(One, 40)
      [] unit = "TB"    -> Shl(Pow10(12), 3)
      [] unit = "TiB"   -> Shl(Shl(One, 40), 3)
      [] unit = "Pbit"  -> Pow10(15)
      [] unit = "Pibit" -> Shl(One, 50)
      [] unit = "PB"    -> Shl(Pow10(15), 3)
      [] unit = "PiB"   -> Shl(Shl(One, 50), 3)
      [] unit = "Ebit"  -> Pow10(18)
      [] unit = "Eibit" -> Shl(One, 60)
      [] unit = "EB"    -> Shl(Pow10(18), 3)
      [] unit = "EiB"   -> Shl(Shl(One, 60), 3)
      [] unit = "Zbit"  -> Pow10(21)
      [] unit = "Zibit" -> Shl(One, 70)
      [] unit = "ZB"    -> Shl(Pow10(21), 3)
      [] unit = "ZiB"   -> Shl(Shl(One, 70), 3)
      [] unit = "Ybit"  -> Pow10(24)
      [] unit = "Yibit" -> Shl(One, 80)
      [] unit = "YB"    -> Shl(Pow10(24), 3)
      [] unit = "YiB"   -> Shl(Shl(One, 80), 3)

\* the match is a constant table
UnitBitsTable == [unit \in Unit |-> as_bits_u128_match(unit)]

as_bits_u128(unit) == UnitBitsTable[unit]

UnitBytesTable == [unit \in Unit \ {"Bit"} |-> Shr(as_bits_u128(unit), 3)]

as_bytes_u128(unit) == UnitBytesTable[unit]

as_str(unit) ==
    CASE unit = "Bit"   -> <<"b">>
      [] unit = "B"     -> <<"B">>
      [] unit = "Kbit"  -> <<"K", "b">>
      [] unit = "Kibit" -> <<"K", "i", "b">>
      [] unit = "KB"    -> <<"K", "B">>
      [] unit = "KiB"   -> <<"K", "i", "B">>
      [] unit = "Mbit"  -> <<"M", "b">>
      [] unit = "Mibit" -> <<"M", "i", "b">>
      [] unit = "MB"    -> <<"M", "B">>
      [] unit = "MiB"   -> <<"M", "i", "B">>
      [] unit = "Gbit"  -> <<"G", "b">>
      [] unit = "Gibit" -> <<"G", "i", "b">>
      [] unit = "GB"    -> <<"G", "B">>
      [] unit = "GiB"   -> <<"G", "i", "B">>
      [] unit = "Tbit"  -> <<"T", "b">>
      [] unit = "Tibit" -> <<"T", "i", "b">>
      [] unit = "TB"    -> <<"T", "B">>
      [] unit = "TiB"   -> <<"T", "i", "B">>
      [] unit = "Pbit"  -> <<"P", "b">>
      [] unit = "Pibit" -> <<"P", "i", "b">>
      [] unit = "PB"    -> <<"P", "B">>
      [] unit = "PiB"   -> <<"P", "i", "B">>
      [] unit = "Ebit"  -> <<"E", "b">>
      [] unit = "Eibit" -> <<"E", "i", "b">>
      [] unit = "EB"    -> <<"E", "B">>
      [] unit = "EiB"   -> <<"E", "i", "B">>
      [] unit = "Zbit"  -> <<"Z", "b">>
      [] unit = "Zibit" -> <<"Z", "i", "b">>
      [] unit = "ZB"    -> <<"Z", "B">>
      [] unit = "ZiB"   -> <<"Z", "i", "B">>
      [] unit = "Ybit"  -> <<"Y", "b">>
      [] unit = "Yibit" -> <<"Y", "i", "b">>
      [] unit = "YB"    -> <<"Y", "B">>
      [] unit = "YiB"   -> <<"Y", "i", "B">>

is_bit(unit) == unit \in BitUnits

get_multiples ==
    <<"Kbit", "Kibit", "KB", "KiB", "Mbit", "Mibit", "MB", "MiB",
      "Gbit", "Gibit", "GB", "GiB", "Tbit", "Tibit", "TB", "TiB",
      "Pbit", "Pibit", "PB", "PiB", "Ebit", "Eibit", "EB", "EiB",
      "Zbit", "Zibit", "ZB", "ZiB", "Ybit", "Yibit", "YB", "YiB">>

get_multiples_bytes ==
    <<"KB", "KiB", "MB", "MiB", "GB", "GiB", "TB", "TiB",
      "PB", "PiB", "EB", "EiB", "ZB", "ZiB", "YB", "YiB">>

get_multiples_bits ==
    <<"Kbit", "Kibit", "Mbit", "Mibit", "Gbit", "Gibit", "Tbit", "Tibit",
      "Pbit", "Pibit", "Ebit", "Eibit", "Zbit", "Zibit", "Ybit", "Yibit">>

(***************************************************************************)
(* Bit and Byte: construction                                              *)
(***************************************************************************)
RONNABIT  == Pow10(27)
RONNABYTE == Pow10(27)

\* a variant with the comparison off by one
Bit_from_u128_inclusive(size) == IF Le(size, RONNABIT) THEN Some(size) ELSE None

Bit_from_u128(size) == IF Lt(size, RONNABIT) THEN Some(size) ELSE None

\* Bit(size as u128): a u64 always fits
Bit_from_u64(size) == size

Bit_from_i128(size) == IF ~size.neg THEN Bit_from_u128(size.mag) ELSE None

Bit_from_i64(size) == IF ~size.neg THEN Some(Bit_from_u64(size.mag)) ELSE None

Bit_from_u128_with_unit(size, unit) ==
    LET v == IF unit = "Bit" THEN Some(size) ELSE checked_mul(size, as_bits_u128(unit))
    IN IF v.some THEN Bit_from_u128(v.v) ELSE None

Bit_from_u64_with_unit(size, unit) == Bit_from_u128_with_unit(size, unit)

Bit_from_i128_with_unit(size, unit) ==
    IF ~size.neg THEN Bit_from_u128_with_unit(size.mag, unit) ELSE None

Bit_from_i64_with_unit(size, unit) ==
    IF ~size.neg THEN Bit_from_u64_with_unit(size.mag, unit) ELSE None

Byte_from_u128(size) == IF Lt(size, RONNABYTE) THEN Some(size) ELSE None

Byte_from_u64(size) == size

Byte_from_i128(size) == IF ~size.neg THEN Byte_from_u128(size.mag) ELSE None

Byte_from_i64(size) == IF ~size.neg THEN Some(Byte_from_u64(size.mag)) ELSE None

Byte_from_u128_with_unit(size, unit) ==
    LET v == CASE unit = "Bit" ->
                    IF BitAndSmall(size, 11) > 0
                    THEN Some(Add(Shr(size, 3), One))
                    ELSE Some(Shr(size, 3))
               [] unit = "B" -> Some(size)
               [] OTHER -> checked_mul(size, as_bytes_u128(unit))
    IN IF v.some THEN Byte_from_u128(v.v) ELSE None

Byte_from_u64_with_unit(size, unit) == Byte_from_u128_with_unit(size, unit)

Byte_from_i128_with_unit(size, unit) ==
    IF ~size.neg THEN Byte_from_u128_with_unit(size.mag, unit) ELSE None

Byte_from_i64_with_unit(size, unit) ==
    IF ~size.neg THEN Byte_from_u64_with_unit(size.mag, unit) ELSE None

(***************************************************************************)
(* Bit and Byte: calculation                                               *)
(***************************************************************************)
\* a variant that saturates at zero
Bit_subtract_saturating(self, rhs) == IF Ge(self, rhs) THEN Some(Sub(self, rhs)) ELSE Some(Zero)

Bit_add(self, rhs) == checked_add(self, rhs)
Bit_subtract(self, rhs) == checked_sub(self, rhs)
Bit_multiply(self, rhs) == checked_mul(self, rhs)
Bit_divide(self, rhs) == checked_div(self, rhs)

Byte_add(self, rhs) == checked_add(self, rhs)
Byte_subtract(self, rhs) == checked_sub(self, rhs)
Byte_multiply(self, rhs) == checked_mul(self, rhs)
Byte_divide(self, rhs) == checked_div(self, rhs)

(***************************************************************************)
(* Conversion to primitive integers                                        *)
(***************************************************************************)
U32_MAX == Sub(Pow2(32), One)
U16_MAX == FromInt(65535)
U8_MAX  == FromInt(255)

\* v as u64: the low 64 bits
as_u64_cast(v) == Mod(v, Pow2(64))

TryFromIntError == "TryFromIntError"

\* u32::try_from, u16::try_from, u8::try_from on a u64
try_from_u64(value, max) == IF Le(value, max) THEN Ok(value) ELSE Err(TryFromIntError)

\* a variant that casts whatever the magnitude is
Bit_as_u64_truncating(self) == as_u64_cast(self)

Bit_as_u128(self) == self
Bit_as_u64(self) == IF Le(self, U64_MAX) THEN as_u64_cast(self) ELSE U64_MAX
Bit_as_u64_checked(self) == IF Le(self, U64_MAX) THEN Some(as_u64_cast(self)) ELSE None
Bit_try_into_u32(bit) == try_from_u64(Bit_as_u64(bit), U32_MAX)
Bit_try_into_u16(bit) == try_from_u64(Bit_as_u64(bit), U16_MAX)
Bit_try_into_u8(bit)  == try_from_u64(Bit_as_u64(bit), U8_MAX)

Byte_as_u128(self) == self
Byte_as_u64(self) == IF Le(self, U64_MAX) THEN as_u64_cast(self) ELSE U64_MAX
Byte_as_u64_checked(self) == IF Le(self, U64_MAX) THEN Some(as_u64_cast(self)) ELSE None
Byte_try_into_u32(byte) == try_from_u64(Byte_as_u64(byte), U32_MAX)
Byte_try_into_u16(byte) == try_from_u64(Byte_as_u64(byte), U16_MAX)
Byte_try_into_u8(byte)  == try_from_u64(Byte_as_u64(byte), U8_MAX)

(***************************************************************************)
(* Exact-unit factorization                                                *)
(***************************************************************************)
\* the loop of get_exact_unit over a[i], a[i - 1], ..., a[0] (a is 1-based here)
RECURSIVE exact_unit_loop(_, _, _, _, _)
exact_unit_loop(v, a, i, byte, base) ==
    LET unit   == a[i]
        unit_v == IF byte THEN as_bytes_u128(unit) ELSE as_bits_u128(unit)
    IN IF Ge(v, unit_v) /\ Mod(v, unit_v) = Zero
       THEN <<Div(v, unit_v), unit>>
       ELSE IF i = 1 THEN <<v, base>>
       ELSE exact_unit_loop(v, a, i - 1, byte, base)

\* a variant that returns the value without dividing it by the unit
Bit_get_exact_unit_undivided(self, allow_in_bytes) ==
    LET a == IF allow_in_bytes THEN get_multiples ELSE get_multiples_bits
    IN <<self, exact_unit_loop(self, a, Len(a), FALSE, "Bit")[2]>>

\* a variant that ignores its flag
Byte_get_exact_unit_any_kind(self, allow_in_bits) ==
    exact_unit_loop(self, get_multiples, Len(get_multiples), TRUE, "B")

Bit_get_exact_unit(self, allow_in_bytes) ==
    LET a == IF allow_in_bytes THEN get_multiples ELSE get_multiples_bits
    IN exact_unit_loop(self, a, Len(a), FALSE, "Bit")

Byte_get_exact_unit(self, allow_in_bits) ==
    LET a == IF allow_in_bits THEN get_multiples ELSE get_multiples_bytes
    IN exact_unit_loop(self, a, Len(a), TRUE, "B")

(***************************************************************************)
(* The state: one value object (a Bit or a Byte), the last operation       *)
(* applied to it with its inputs, and what the operation returned.         *)
(***************************************************************************)
VARIABLES obj, op, ret, nops
vars == <<obj, op, ret, nops>>

Types == {"Bit", "Byte"}

Obj(type, v) == [type |-> type, v |-> v]

\* the operation just applied: its name, the type it belongs to, the receiver's
\* magnitude before the call (for an associated function: the object it replaces)
\* and its arguments
Op(name, type, self, args) == [name |-> name, type |-> type, self |-> self, args |-> args]

Unsigned(mag) == Signed(FALSE, mag)

\* Bit::default() / Byte::default()
InitObj == Obj("Bit", Zero)
InitOp == Op("default", "Bit", Zero, [size |-> Unsigned(Zero)])

\* the object after an operation that returns Option<Self>
Keep(type, r) == IF r.some THEN Obj(type, r.v) ELSE obj

\* the magnitude of a unit in the base of the type: bits for Bit, bytes for Byte
Magnitude(type, unit) ==
    IF type = "Bit" THEN as_bits_u128(unit) ELSE as_bytes_u128(unit)

BaseUnit(type) == IF type = "Bit" THEN "Bit" ELSE "B"

(***************************************************************************)
(* Bounds of the model                                                     *)
(***************************************************************************)
\* operations applied to one object in a run
MaxOps == 3
\* the sizes 0..MaxSmall are enumerated exhaustively
MaxSmall == 17

MAX == Sub(RONNABIT, One)

SmallSizes == {FromInt(n) : n \in 0..MaxSmall}

\* sizes on and around the limits of the types
EdgeSizes == {FromInt(999), FromInt(1000), FromInt(1024), Sub(MAX, One), MAX, RONNABIT,
              Add(RONNABIT, One), Sub(Pow2(63), One), U64_MAX, Add(U64_MAX, One),
              Sub(Pow2(127), One), U128_MAX}

U128Sizes == SmallSizes \cup EdgeSizes
U64Sizes  == {n \in U128Sizes : Le(n, U64_MAX)}
I128Sizes == {Signed(FALSE, n) : n \in {m \in U128Sizes : Lt(m, Pow2(127))}}
                 \cup {Signed(TRUE, n) : n \in {One, FromInt(8), MAX, Pow2(63), Pow2(127)}}
I64Sizes  == {Signed(FALSE, n) : n \in {m \in U128Sizes : Lt(m, Pow2(63))}}
                 \cup {Signed(TRUE, n) : n \in {One, FromInt(8), Pow2(63)}}

(***************************************************************************)
(* Operations: constructors                                                *)
(***************************************************************************)
from_u128(type, size) == IF type = "Bit" THEN Bit_from_u128(size) ELSE Byte_from_u128(size)
from_u64(type, size) == IF type = "Bit" THEN Bit_from_u64(size) ELSE Byte_from_u64(size)
from_i128(type, size) == IF type = "Bit" THEN Bit_from_i128(size) ELSE Byte_from_i128(size)
from_i64(type, size) == IF type = "Bit" THEN Bit_from_i64(size) ELSE Byte_from_i64(size)
from_u128_with_unit(type, size, unit) ==
    IF type = "Bit" THEN Bit_from_u128_with_unit(size, unit)
    ELSE Byte_from_u128_with_unit(size, unit)
from_u64_with_unit(type, size, unit) ==
    IF type = "Bit" THEN Bit_from_u64_with_unit(size, unit)
    ELSE Byte_from_u64_with_unit(size, unit)
from_i128_with_unit(type, size, unit) ==
    IF type = "Bit" THEN Bit_from_i128_with_unit(size, unit)
    ELSE Byte_from_i128_with_unit(size, unit)
from_i64_with_unit(type, size, unit) ==
    IF type = "Bit" THEN Bit_from_i64_with_unit(size, unit)
    ELSE Byte_from_i64_with_unit(size, unit)

\* an associated function that returns Option<Self>: the object is replaced on Some
FromU128(sizes) ==
    /\ nops = 0
    /\ \E type \in Types, size \in sizes :
           /\ ret' = from_u128(type, size)
           /\ obj' = Keep(type, ret')
           /\ op' = Op("from_u128", type, obj.v, [size |-> Unsigned(size)])
           /\ nops' = nops + 1

FromU64(sizes) ==
    /\ nops = 0
    /\ \E type \in Types, size \in sizes :
           /\ ret' = Some(from_u64(type, size))
           /\ obj' = Keep(type, ret')
           /\ op' = Op("from_u64", type, obj.v, [size |-> Unsigned(size)])
           /\ nops' = nops + 1

FromI128(sizes) ==
    /\ nops = 0
    /\ \E type \in Types, size \in sizes :
           /\ ret' = from_i128(type, size)
           /\ obj' = Keep(type, ret')
           /\ op' = Op("from_i128", type, obj.v, [size |-> size])
           /\ nops' = nops + 1

FromI64(sizes) ==
    /\ nops = 0
    /\ \E type \in Types, size \in sizes :
           /\ ret' = from_i64(type, size)
           /\ obj' = Keep(type, ret')
           /\ op' = Op("from_i64", type, obj.v, [size |-> size])
           /\ nops' = nops + 1

FromU128WithUnit(sizes, units) ==
    /\ nops = 0
    /\ \E type \in Types, size \in sizes, unit \in units :
           /\ ret' = from_u128_with_unit(type, size, unit)
           /\ obj' = Keep(type, ret')
           /\ op' = Op("from_u128_with_unit", type, obj.v, [size |-> Unsigned(size), unit |-> unit])
           /\ nops' = nops + 1

FromU64WithUnit(sizes, units) ==
    /\ nops = 0
    /\ \E type \in Types, size \in sizes, unit \in units :
           /\ ret' = from_u64_with_unit(type, size, unit)
           /\ obj' = Keep(type, ret')
           /\ op' = Op("from_u64_with_unit", type, obj.v, [size |-> Unsigned(size), unit |-> unit])
           /\ nops' = nops + 1

FromI128WithUnit(sizes, units) ==
    /\ nops = 0
    /\ \E type \in Types, size \in sizes, unit \in units :
           /\ ret' = from_i128_with_unit(type, size, unit)
           /\ obj' = Keep(type, ret')
           /\ op' = Op("from_i128_with_unit", type, obj.v, [size |-> size, unit |-> unit])
           /\ nops' = nops + 1

FromI64WithUnit(sizes, units) ==
    /\ nops = 0
    /\ \E type \in Types, size \in sizes, unit \in units :
           /\ ret' = from_i64_with_unit(type, size, unit)
           /\ obj' = Keep(type, ret')
           /\ op' = Op("from_i64_with_unit", type, obj.v, [size |-> size, unit |-> unit])
           /\ nops' = nops + 1

(***************************************************************************)
(* Operations: calculation.  The right-hand side of add and subtract is    *)
(* itself a value of the type, built by from_u128.                         *)
(***************************************************************************)
add(type, self, rhs) == IF type = "Bit" THEN Bit_add(self, rhs) ELSE Byte_add(self, rhs)
subtract(type, self, rhs) ==
    IF type = "Bit" THEN Bit_subtract(self, rhs) ELSE Byte_subtract(self, rhs)
multiply(type, self, rhs) ==
    IF type = "Bit" THEN Bit_multiply(self, rhs) ELSE Byte_multiply(self, rhs)
divide(type, self, rhs) ==
    IF type = "Bit" THEN Bit_divide(self, rhs) ELSE Byte_divide(self, rhs)

RhsValues == {n \in {One, MAX} : from_u128("Bit", n).some}
RhsUsize  == {Zero, FromInt(2), USIZE_MAX}

\* a method that returns Option<Self>: the caller keeps the result on Some
AddOp ==
    /\ nops \in 1..(MaxOps - 1)
    /\ \E rhs \in RhsValues :
           /\ ret' = add(obj.type, obj.v, rhs)
           /\ obj' = Keep(obj.type, ret')
           /\ op' = Op("add", obj.type, obj.v, [rhs |-> rhs])
           /\ nops' = nops + 1

SubtractOp ==
    /\ nops \in 1..(MaxOps - 1)
    /\ \E rhs \in RhsValues :
           /\ ret' = subtract(obj.type, obj.v, rhs)
           /\ obj' = Keep(obj.type, ret')
           /\ op' = Op("subtract", obj.type, obj.v, [rhs |-> rhs])
           /\ nops' = nops + 1

MultiplyOp ==
    /\ nops \in 1..(MaxOps - 1)
    /\ \E rhs \in RhsUsize :
           /\ ret' = multiply(obj.type, obj.v, rhs)
           /\ obj' = Keep(obj.type, ret')
           /\ op' = Op("multiply", obj.type, obj.v, [rhs |-> rhs])
           /\ nops' = nops + 1

DivideOp ==
    /\ nops \in 1..(MaxOps - 1)
    /\ \E rhs \in RhsUsize :
           /\ ret' = divide(obj.type, obj.v, rhs)
           /\ obj' = Keep(obj.type, ret')
           /\ op' = Op("divide", obj.type, obj.v, [rhs |-> rhs])
           /\ nops' = nops + 1

(***************************************************************************)
(* Spec: a value is built by a safe constructor and then calculated with.  *)
(***************************************************************************)
ChainU128 == {Zero, One, MAX, RONNABIT}
ChainU64  == {FromInt(1000), U64_MAX}
ChainWithUnit == {FromInt(999), FromInt(1000)}
ChainUnits == {"Ybit", "YB"}

Init ==
    /\ obj = InitObj
    /\ op = InitOp
    /\ ret = Some(Zero)
    /\ nops = 0

Next ==
    \/ FromU128(ChainU128)
    \/ FromU64(ChainU64)
    \/ FromU128WithUnit(ChainWithUnit, ChainUnits)
    \/ AddOp
    \/ SubtractOp
    \/ MultiplyOp
    \/ DivideOp

Spec == Init /\ [][Next]_vars

\* C1: in wide mode every Bit or Byte obtained through the safe operations has
\* a magnitude of at most MAX = 10^27 - 1, and an operation that returns a
\* value (add and multiply among them) never returns one above MAX.
C1_MagnitudeWithinMax ==
    /\ Le(obj.v, MAX)
    /\ ret.some => Le(ret.v, MAX)

\* C18: subtract(a, b) returns None exactly when b > a and Some(a - b)
\* otherwise; divide(a, n) returns None exactly when n = 0 and Some(floor(a / n))
\* otherwise; a result is never larger than a.  (The operands are taken by
\* value: op.self and op.args.rhs are what the call was made on.)
C18_SubtractAndDivide ==
    /\ op.name = "subtract" =>
           IF Gt(op.args.rhs, op.self) THEN ret = None
           ELSE ret.some /\ Add(ret.v, op.args.rhs) = op.self /\ Le(ret.v, op.self)
    /\ op.name = "divide" =>
           IF op.args.rhs = Zero THEN ret = None
           ELSE /\ ret.some
                /\ Le(Mul(ret.v, op.args.rhs), op.self)
                /\ Gt(Mul(Add(ret.v, One), op.args.rhs), op.self)
                /\ Le(ret.v, op.self)

\* C18 happens: a subtraction that would go below zero is refused
C18_SubtractBelowZero ==
    /\ op.name = "subtract"
    /\ op.type = "Bit"
    /\ op.self = Zero
    /\ op.args.rhs = One
    /\ ret = None

(***************************************************************************)
(* SpecConvert: a value is built and converted to the primitive integers.  *)
(***************************************************************************)
ConvertSizes ==
    U128Sizes \cup {U8_MAX, Add(U8_MAX, One), U16_MAX, Add(U16_MAX, One), U32_MAX,
                    Add(U32_MAX, One), Add(Pow2(64), FromInt(7))}

as_u128(type, self) == IF type = "Bit" THEN Bit_as_u128(self) ELSE Byte_as_u128(self)
as_u64(type, self) == IF type = "Bit" THEN Bit_as_u64(self) ELSE Byte_as_u64(self)
as_u64_checked(type, self) ==
    IF type = "Bit" THEN Bit_as_u64_checked(self) ELSE Byte_as_u64_checked(self)
try_into_u32(type, self) == IF type = "Bit" THEN Bit_try_into_u32(self) ELSE Byte_try_into_u32(self)
try_into_u16(type, self) == IF type = "Bit" THEN Bit_try_into_u16(self) ELSE Byte_try_into_u16(self)
try_into_u8(type, self) == IF type = "Bit" THEN Bit_try_into_u8(self) ELSE Byte_try_into_u8(self)

AsU128 ==
    /\ nops = 1
    /\ ret' = as_u128(obj.type, obj.v)
    /\ op' = Op("as_u128", obj.type, obj.v, [max |-> U128_MAX])
    /\ nops' = nops + 1
    /\ UNCHANGED obj

AsU64 ==
    /\ nops = 1
    /\ ret' = as_u64(obj.type, obj.v)
    /\ op' = Op("as_u64", obj.type, obj.v, [max |-> U64_MAX])
    /\ nops' = nops + 1
    /\ UNCHANGED obj

AsU64Checked ==
    /\ nops = 1
    /\ ret' = as_u64_checked(obj.type, obj.v)
    /\ op' = Op("as_u64_checked", obj.type, obj.v, [max |-> U64_MAX])
    /\ nops' = nops + 1
    /\ UNCHANGED obj

TryIntoU32 ==
    /\ nops = 1
    /\ ret' = try_into_u32(obj.type, obj.v)
    /\ op' = Op("try_into", obj.type, obj.v, [max |-> U32_MAX])
    /\ nops' = nops + 1
    /\ UNCHANGED obj

TryIntoU16 ==
    /\ nops = 1
    /\ ret' = try_into_u16(obj.type, obj.v)
    /\ op' = Op("try_into", obj.type, obj.v, [max |-> U16_MAX])
    /\ nops' = nops + 1
    /\ UNCHANGED obj

TryIntoU8 ==
    /\ nops = 1
    /\ ret' = try_into_u8(obj.type, obj.v)
    /\ op' = Op("try_into", obj.type, obj.v, [max |-> U8_MAX])
    /\ nops' = nops + 1
    /\ UNCHANGED obj

NextConvert ==
    \/ FromU128(ConvertSizes)
    \/ AsU128
    \/ AsU64
    \/ AsU64Checked
    \/ TryIntoU32
    \/ TryIntoU16
    \/ TryIntoU8

SpecConvert == Init /\ [][NextConvert]_vars

\* C17: the conversions to primitives never truncate: as_u64 returns the
\* magnitude when it is at most 2^64 - 1 and u64::MAX otherwise;
\* as_u64_checked returns Some(magnitude) exactly when as_u64 does not
\* saturate and None otherwise; as_u128 returns the magnitude; TryFrom for
\* u32, u16 and u8 fails exactly when the magnitude exceeds the maximum of the
\* target type.
C17_ConversionsNeverTruncate ==
    /\ op.name = "as_u128" => ret = op.self
    /\ op.name = "as_u64" => ret = IF Le(op.self, U64_MAX) THEN op.self ELSE U64_MAX
    /\ op.name = "as_u64_checked" => ret = IF Le(op.self, U64_MAX) THEN Some(op.self) ELSE None
    /\ op.name = "try_into" =>
           IF Le(op.self, op.args.max) THEN ret = Ok(op.self) ELSE ~ret.ok

\* C17 happens: a magnitude above 2^64 - 1 saturates
C17_AsU64Saturates ==
    /\ op.name = "as_u64"
    /\ op.self = Add(Pow2(64), FromInt(7))
    /\ ret = U64_MAX

(***************************************************************************)
(* SpecNew: every integer constructor on every input of the size sets.     *)
(***************************************************************************)
NextNew ==
    \/ FromU128(U128Sizes)
    \/ FromU64(U64Sizes)
    \/ FromI128(I128Sizes)
    \/ FromI64(I64Sizes)
    \/ FromU128WithUnit(U128Sizes, Unit)
    \/ FromU64WithUnit(U64Sizes, Unit)
    \/ FromI128WithUnit(I128Sizes, Unit)
    \/ FromI64WithUnit(I64Sizes, Unit)

SpecNew == Init /\ [][NextNew]_vars

UnsignedWithUnit == {"from_u128_with_unit", "from_u64_with_unit"}
SignedConstructors == {"from_i128", "from_i64", "from_i128_with_unit", "from_i64_with_unit"}

\* ceil(n / 8)
CeilDiv8(n) == IF Mod(n, FromInt(8)) = Zero THEN Div(n, FromInt(8)) ELSE Add(Div(n, FromInt(8)), One)

\* C6: Byte::from_u128_with_unit(n, Unit::Bit) (and its u64 form) is
\* Some(ceil(n / 8)) whenever ceil(n / 8) is within MAX: converting a number of
\* bits to bytes rounds up.
C6_BitsToBytesRoundUp ==
    (/\ op.name \in UnsignedWithUnit
     /\ op.type = "Byte"
     /\ op.args.unit = "Bit"
     /\ Le(CeilDiv8(op.args.size.mag), MAX))
        => ret = Some(CeilDiv8(op.args.size.mag))

\* C9: a signed constructor returns None for a negative size; from_u128(n) is
\* Some(n) exactly when n <= MAX; from_u128_with_unit and from_u64_with_unit
\* with a multiple unit u return Some(n * magnitude(u)) exactly when the exact
\* product is at most MAX and None otherwise.
C9_ConstructorsRejectOutOfRange ==
    /\ (op.name \in SignedConstructors /\ op.args.size.neg) => ret = None
    /\ op.name = "from_u128" =>
           ret = IF Le(op.args.size.mag, MAX) THEN Some(op.args.size.mag) ELSE None
    /\ (op.name \in UnsignedWithUnit /\ op.args.unit \notin {"Bit", "B"}) =>
           LET product == Mul(op.args.size.mag, Magnitude(op.type, op.args.unit))
           IN ret = IF Le(product, MAX) THEN Some(product) ELSE None

\* C9 happens: a product above MAX that still fits a u128 is refused, and so is
\* one that does not fit
C9_ProductAboveMaxRefused ==
    /\ op.name = "from_u128_with_unit"
    /\ op.args.unit = "Ybit"
    /\ op.args.size.mag = FromInt(1000)
    /\ ret = None

(***************************************************************************)
(* SpecExact: get_exact_unit applied to values n * unit and to the values  *)
(* around them.                                                            *)
(***************************************************************************)
\* the factors 1..MaxFactor are enumerated
MaxFactor == 3

ExactFactors == {FromInt(n) : n \in 1..MaxFactor} \cup {FromInt(125), FromInt(1000)}

ExactValues(type) ==
    {Zero, One, FromInt(375000), FromInt(123456), MAX}
        \cup {v \in {Mul(n, Magnitude(type, unit)) : n \in ExactFactors, unit \in Unit \ {"Bit"}} :
                from_u128(type, v).some}

get_exact_unit(type, self, flag) ==
    IF type = "Bit" THEN Bit_get_exact_unit(self, flag) ELSE Byte_get_exact_unit(self, flag)

GetExactUnit ==
    /\ nops = 0
    /\ \E flag \in BOOLEAN :
           /\ ret' = get_exact_unit(obj.type, obj.v, flag)
           /\ op' = Op("get_exact_unit", obj.type, obj.v, [flag |-> flag])
           /\ nops' = nops + 1
           /\ UNCHANGED obj

InitExact ==
    /\ \E type \in Types : \E v \in ExactValues(type) : obj = Obj(type, v)
    /\ op = InitOp
    /\ ret = Some(Zero)
    /\ nops = 0

NextExact == GetExactUnit

SpecExact == InitExact /\ [][NextExact]_vars

Permitted(type, flag) ==
    {u \in Unit \ {"Bit", "B"} : flag \/ (is_bit(u) <=> type = "Bit")}

Divides(type, u, m) ==
    /\ Ge(m, Magnitude(type, u))
    /\ Mod(m, Magnitude(type, u)) = Zero

\* C4: get_exact_unit on a Bit or a Byte of magnitude m returns (n, u) with
\* n * magnitude(u) = m exactly; when m is 0 or no multiple unit divides it,
\* the result is (m, base unit).
C4_ExactUnitIsExact ==
    op.name = "get_exact_unit" =>
        /\ Mul(ret[1], Magnitude(op.type, ret[2])) = op.self
        /\ (\/ op.self = Zero
            \/ \A u \in Permitted(op.type, op.args.flag) : ~Divides(op.type, u, op.self))
              => ret = <<op.self, BaseUnit(op.type)>>

\* C4 happens: a value is expressed in a multiple unit with a factor above one
C4_ExactInMultipleUnit ==
    /\ op.name = "get_exact_unit"
    /\ op.type = "Bit"
    /\ ret[2] \notin {"Bit", "B"}
    /\ Gt(ret[1], One)

\* C5: get_exact_unit returns the largest permitted unit that divides the
\* magnitude; with the flag false only units of the object's own kind are
\* permitted.  Bit 1000 Tibit with the flag true is (125, TiB); Byte 375000 is
\* (3, Mbit) with the flag true and (375, KB) with the flag false.
C5_ExactUnitIsLargest ==
    op.name = "get_exact_unit" =>
        /\ ~op.args.flag => (is_bit(ret[2]) <=> op.type = "Bit")
        /\ ret[2] \in Permitted(op.type, op.args.flag) \cup {BaseUnit(op.type)}
        /\ \A u \in Permitted(op.type, op.args.flag) :
              Divides(op.type, u, op.self) =>
                  /\ ret[2] # BaseUnit(op.type)
                  /\ Le(Magnitude(op.type, u), Magnitude(op.type, ret[2]))
        /\ (op.type = "Bit" /\ op.self = Mul(FromInt(1000), as_bits_u128("Tibit")) /\ op.args.flag)
              => ret = <<FromInt(125), "TiB">>
        /\ (op.type = "Byte" /\ op.self = FromInt(375000))
              => ret = IF op.args.flag THEN <<FromInt(3), "Mbit">> ELSE <<FromInt(375), "KB">>

\* C5 happens: a Byte is expressed in its own kind because the flag is false,
\* although a larger bit unit divides it
C5_OwnKindOnly ==
    /\ op.name = "get_exact_unit"
    /\ op.type = "Byte"
    /\ op.self = FromInt(375000)
    /\ ~op.args.flag
    /\ ret = <<FromInt(375), "KB">>
(***************************************************************************)
(* rust_decimal::Decimal as the crate uses it: a value m / 10^s with a     *)
(* mantissa m below 2^96 and a scale s of 0..28.  The crate only builds    *)
(* values that are not negative.  An operation whose exact result has no   *)
(* such form reduces the scale, rounding half to even, and overflows only  *)
(* when scale 0 does not fit either.  Equality is by value.                *)
(***************************************************************************)
MAX_SCALE == 28

MANTISSA_MAX == Sub(Pow2(96), One)

Dec(m, s) == [m |-> m, s |-> s]

Decimal_ZERO == Dec(Zero, 0)
Decimal_TEN == Dec(FromInt(10), 0)

\* a panic of the program
Panic == [panic |-> TRUE]

Max(a, b) == IF a >= b THEN a ELSE b

\* n / 10^k rounded to an integer, half to even
RoundHalfEven(n, k) ==
    LET q == ShiftDown(n, k)
        c == Cmp(MulSmall(LowDigits(n, k), 2), Pow10(k))
    IN IF c > 0 \/ (c = 0 /\ Digit(q, 1) % 2 = 1) THEN Add(q, One) ELSE q

\* the Decimal of n / 10^s with k or more digits dropped: the fewest that fit
RECURSIVE Fit(_, _, _)
Fit(n, s, k) ==
    IF k > s THEN None
    ELSE LET q == RoundHalfEven(n, k)
         IN IF Le(q, MANTISSA_MAX) THEN Some(Dec(q, s - k)) ELSE Fit(n, s, k + 1)

Rescale(n, s) == Fit(n, s, Max(Max(s - MAX_SCALE, Len(n) - 29), 0))

\* Decimal::from(u128): a panic above 96 bits
Decimal_from(n) == IF Le(n, MANTISSA_MAX) THEN Dec(n, 0) ELSE Panic

Decimal_checked_add(a, b) ==
    LET s == Max(a.s, b.s)
    IN Rescale(Add(ShiftUp(a.m, s - a.s), ShiftUp(b.m, s - b.s)), s)

Decimal_checked_mul(a, b) ==
    IF a.m = Zero \/ b.m = Zero THEN Some(Decimal_ZERO)
    ELSE Rescale(Mul(a.m, b.m), a.s + b.s)

\* the operators + and *: a panic on overflow
Decimal_add(a, b) ==
    LET r == Decimal_checked_add(a, b) IN IF r.some THEN r.v ELSE Panic

Decimal_mul(a, b) ==
    LET r == Decimal_checked_mul(a, b) IN IF r.some THEN r.v ELSE Panic

Decimal_normalize(a) ==
    IF a.m = Zero THEN Decimal_ZERO
    ELSE LET z == IF TrailingZeros(a.m) < a.s THEN TrailingZeros(a.m) ELSE a.s
         IN Dec(ShiftDown(a.m, z), a.s - z)

\* the quotient q at scale MAX_SCALE cut by k or more digits, the fewest that
\* fit, and rounded half to even on all that follows: rest compares what is left
\* after q with half a unit of q, sticky says that something is left
RECURSIVE DivFit(_, _, _, _)
DivFit(q, rest, sticky, k) ==
    IF k > MAX_SCALE THEN Panic
    ELSE LET t    == ShiftDown(q, k)
             half == IF k = 0 THEN 0 ELSE Cmp(LowDigits(q, k), MulSmall(Pow10(k - 1), 5))
             c    == IF k = 0 THEN rest
                     ELSE IF half # 0 THEN half
                     ELSE IF sticky THEN 1 ELSE 0
             r    == IF c > 0 \/ (c = 0 /\ Digit(t, 1) % 2 = 1) THEN Add(t, One) ELSE t
         IN IF Le(r, MANTISSA_MAX) THEN Dec(r, MAX_SCALE - k)
            ELSE DivFit(q, rest, sticky, k + 1)

\* a / b for b > 0: an exact quotient comes without trailing zeros
Decimal_div(a, b) ==
    IF a.m = Zero THEN Decimal_ZERO
    ELSE LET den == ShiftUp(b.m, a.s)
             d   == DivMod(ShiftUp(a.m, b.s + MAX_SCALE), den)
             z   == IF TrailingZeros(d.q) < MAX_SCALE THEN TrailingZeros(d.q) ELSE MAX_SCALE
         IN IF d.r = Zero /\ Le(ShiftDown(d.q, z), MANTISSA_MAX)
            THEN Dec(ShiftDown(d.q, z), MAX_SCALE - z)
            ELSE DivFit(d.q, Cmp(MulSmall(d.r, 2), den), d.r # Zero, Max(Len(d.q) - 29, 0))

Decimal_trunc(a) == Dec(ShiftDown(a.m, a.s), 0)

Decimal_fract(a) == Dec(LowDigits(a.m, a.s), a.s)

\* Decimal::round: to an integer, half to even
Decimal_round(a) == Dec(RoundHalfEven(a.m, a.s), 0)

Decimal_ceil(a) ==
    IF LowDigits(a.m, a.s) = Zero THEN Decimal_trunc(a)
    ELSE Dec(Add(ShiftDown(a.m, a.s), One), 0)

Decimal_eq(a, b) == ShiftUp(a.m, b.s) = ShiftUp(b.m, a.s)

\* Decimal::to_u128: the integer part, when a u128 holds it
Decimal_to_u128(a) == Some(ShiftDown(a.m, a.s))

\* Decimal::set_scale on d: an error above MAX_SCALE
Decimal_set_scale(d, scale) == IF scale > MAX_SCALE THEN None ELSE Some(Dec(d.m, scale))

(***************************************************************************)
(* Unit::parse_str.  A string is a sequence of one-character strings; the  *)
(* characters of the model are ASCII, for which get_char_from_bytes is the *)
(* character itself.                                                       *)
(***************************************************************************)
LowerCase == <<"a", "b", "c", "d", "e", "f", "g", "h", "i", "j", "k", "l", "m",
               "n", "o", "p", "q", "r", "s", "t", "u", "v", "w", "x", "y", "z">>
UpperCase == <<"A", "B", "C", "D", "E", "F", "G", "H", "I", "J", "K", "L", "M",
               "N", "O", "P", "Q", "R", "S", "T", "U", "V", "W", "X", "Y", "Z">>

to_ascii_uppercase(e) ==
    IF \E i \in 1..Len(LowerCase) : LowerCase[i] = e
    THEN UpperCase[CHOOSE i \in 1..Len(LowerCase) : LowerCase[i] = e]
    ELSE e

to_ascii_lowercase(e) ==
    IF \E i \in 1..Len(UpperCase) : UpperCase[i] = e
    THEN LowerCase[CHOOSE i \in 1..Len(UpperCase) : UpperCase[i] = e]
    ELSE e

\* char::is_whitespace on the characters of the model: the space and the tab
WhiteSpace == {" ", "\t"}

\* str::trim: the white space at both ends is removed
RECURSIVE trim_start(_)
trim_start(s) == IF s # << >> /\ Head(s) \in WhiteSpace THEN trim_start(Tail(s)) ELSE s

RECURSIVE trim_end(_)
trim_end(s) ==
    IF s # << >> /\ s[Len(s)] \in WhiteSpace THEN trim_end(SubSeq(s, 1, Len(s) - 1)) ELSE s

trim(s) == trim_end(trim_start(s))

\* Bytes::next: the next character, if any, and the iterator after it
next(bytes) == IF bytes = << >> THEN None ELSE Some(Head(bytes))
advance(bytes) == IF bytes = << >> THEN bytes ELSE Tail(bytes)


UnitParseError(character, expected_characters, also_expect_no_character) ==
    [character |-> character,
     expected_characters |-> expected_characters,
     also_expect_no_character |-> also_expect_no_character]

\* the nested matches of read_b, one level per character read
\* a variant that lets anything follow the s of bits
read_b_s_lenient(bytes) ==
    LET e == next(bytes)
    IN IF ~e.some THEN Ok(FALSE)
       ELSE IF to_ascii_lowercase(e.v) = "s" THEN Ok(FALSE)
       ELSE Err(UnitParseError(e.v, <<"s">>, TRUE))

read_b_s(bytes) ==
    LET e == next(bytes)
    IN IF ~e.some THEN Ok(FALSE)
       ELSE IF to_ascii_lowercase(e.v) = "s"
       THEN IF next(advance(bytes)).some
            THEN Err(UnitParseError(next(advance(bytes)).v, << >>, TRUE))
            ELSE Ok(FALSE)
       ELSE Err(UnitParseError(e.v, <<"s">>, TRUE))

\* a variant that lets the input end after the i
read_b_t_lenient(bytes) ==
    LET e == next(bytes)
    IN IF ~e.some THEN Ok(FALSE)
       ELSE IF to_ascii_lowercase(e.v) = "t" THEN read_b_s(advance(bytes))
       ELSE Err(UnitParseError(e.v, <<"t">>, FALSE))

read_b_t(bytes) ==
    LET e == next(bytes)
    IN IF ~e.some THEN Err(UnitParseError("i", << >>, TRUE))
       ELSE IF to_ascii_lowercase(e.v) = "t" THEN read_b_s(advance(bytes))
       ELSE Err(UnitParseError(e.v, <<"t">>, FALSE))

\* a variant in which a base with nothing after it is the bit
read_b_bit_at_end(bytes, byte) ==
    LET e == next(bytes)
    IN IF ~e.some THEN Ok(FALSE)
       ELSE IF to_ascii_lowercase(e.v) = "i" THEN read_b_t(advance(bytes))
       ELSE Err(UnitParseError(e.v, <<"i">>, TRUE))

read_b(bytes, byte) ==
    LET e == next(bytes)
    IN IF ~e.some THEN Ok(byte)
       ELSE IF to_ascii_lowercase(e.v) = "i" THEN read_b_t(advance(bytes))
       ELSE Err(UnitParseError(e.v, <<"i">>, TRUE))

\* a variant in which a written b or B takes the default base
read_ib_default_base(bytes, ignore_case, default_upper_case) ==
    LET first == next(bytes)
    IN IF ~first.some THEN Ok(<<FALSE, default_upper_case>>)
       ELSE LET i    == first.v = "i" \/ first.v = "I"
                ne   == next(advance(bytes))
                e    == IF i /\ ne.some THEN ne.v ELSE first.v
                rest == IF i THEN advance(advance(bytes)) ELSE advance(bytes)
            IN IF i /\ ~ne.some THEN Ok(<<TRUE, default_upper_case>>)
               ELSE IF e = "b" \/ e = "B"
               THEN LET b == read_b(rest, default_upper_case)
                    IN IF b.ok THEN Ok(<<i, b.v>>) ELSE b
               ELSE Err(UnitParseError(e, <<"B", "b">>, TRUE))

\* Ok(<<i, byte>>) or the error
read_ib(bytes, ignore_case, default_upper_case) ==
    LET first == next(bytes)
    IN IF ~first.some THEN Ok(<<FALSE, default_upper_case>>)
       ELSE LET i    == first.v = "i" \/ first.v = "I"
                ne   == next(advance(bytes))
                e    == IF i /\ ne.some THEN ne.v ELSE first.v
                rest == IF i THEN advance(advance(bytes)) ELSE advance(bytes)
            IN IF i /\ ~ne.some THEN Ok(<<TRUE, default_upper_case>>)
               ELSE IF e = "b" \/ e = "B"
               THEN LET b == read_b(rest, IF ignore_case THEN TRUE ELSE e = "B")
                    IN IF b.ok THEN Ok(<<i, b.v>>) ELSE b
               ELSE Err(UnitParseError(e,
                        IF ignore_case
                        THEN IF default_upper_case THEN <<"B">> ELSE <<"b">>
                        ELSE <<"B", "b">>,
                        TRUE))

\* a variant that drops the binary mark
PrefixUnit_decimal(prefix, i, byte) == prefix \o (IF byte THEN "B" ELSE "bit")

\* the unit of a prefix letter, the binary mark and the base
PrefixUnit(prefix, i, byte) ==
    prefix \o (IF i THEN "i" ELSE "") \o (IF byte THEN "B" ELSE "bit")

read_xib(e, bytes, ignore_case, prefer_byte) ==
    IF ~e.some THEN Ok(IF prefer_byte THEN "B" ELSE "Bit")
    ELSE IF to_ascii_uppercase(e.v) = "B"
    THEN LET byte == read_b(bytes, IF ignore_case THEN TRUE ELSE e.v = "B")
         IN IF byte.ok THEN Ok(IF byte.v THEN "B" ELSE "Bit") ELSE byte
    ELSE IF \E k \in 1..Len(Prefixes) : Prefixes[k] = to_ascii_uppercase(e.v)
    THEN LET r == read_ib(bytes, ignore_case, prefer_byte)
         IN IF r.ok THEN Ok(PrefixUnit(to_ascii_uppercase(e.v), r.v[1], r.v[2])) ELSE r
    ELSE Err(UnitParseError(e.v, <<"B", "K", "M", "G", "T", "P", "E", "Z", "Y">>, TRUE))

\* a variant that never prefers the byte
Unit_parse_str_prefer_bit(s, ignore_case, prefer_byte) ==
    LET bytes == trim(s)
    IN read_xib(next(bytes), advance(bytes), ignore_case, FALSE)

Unit_parse_str(s, ignore_case, prefer_byte) ==
    LET bytes == trim(s)
    IN read_xib(next(bytes), advance(bytes), ignore_case, prefer_byte)

(***************************************************************************)
(* Bit and Decimal: from_decimal, from_decimal_with_unit,                  *)
(* get_recoverable_unit                                                    *)
(***************************************************************************)
\* size >= Decimal::ZERO holds for every Decimal of the model
from_option_u128(n) == IF n.some THEN Bit_from_u128(n.v) ELSE None

Bit_from_decimal(size) == from_option_u128(Decimal_to_u128(Decimal_ceil(size)))

\* Self::from_decimal(v), or the return of None when checked_mul gave None
from_decimal_option(v) == IF v.some THEN Bit_from_decimal(v.v) ELSE None

Bit_from_decimal_with_unit(size, unit) ==
    from_decimal_option(IF unit = "Bit" THEN Some(size)
                        ELSE Decimal_checked_mul(size, Decimal_from(as_bits_u128(unit))))

\* is_zero_remainder_decimal, last step: a == product
zero_remainder(a, quotient_round, product) ==
    IF product = Panic THEN Panic
    ELSE IF Decimal_eq(product, a) THEN Some(quotient_round)
    ELSE None

\* quotient.trunc() + (quotient.fract() * scale).round() / scale, given the
\* product scaled == quotient.fract() * scale
trunc_plus_rounded_fract(quotient, scaled, scale) ==
    IF scaled = Panic THEN Panic
    ELSE Decimal_add(Decimal_trunc(quotient), Decimal_div(Decimal_round(scaled), scale))

\* the value of quotient_round
round_quotient(quotient, scale, precision) ==
    IF precision = 0 THEN Decimal_round(quotient)
    ELSE trunc_plus_rounded_fract(quotient, Decimal_mul(Decimal_fract(quotient), scale), scale)

\* b * quotient_round is compared with a
check_quotient_round(a, b, quotient_round) ==
    IF quotient_round = Panic THEN Panic
    ELSE zero_remainder(a, quotient_round, Decimal_mul(b, quotient_round))

\* Some(quotient_round), None, or a panic of the operators inside
is_zero_remainder_decimal(a, b, precision) ==
    check_quotient_round(a, b,
        round_quotient(Decimal_div(a, b), Decimal_from(Pow10(precision)), precision))

\* one turn of the loop of get_recoverable_unit, on a[i]: the value and the
\* unit that are returned, a panic, or None when the loop goes on; found is
\* the result of is_zero_remainder_decimal
recoverable_unit_found(found, unit) ==
    IF found = Panic THEN Panic
    ELSE IF found.some THEN [value |-> found.v, unit |-> unit]
    ELSE None

recoverable_unit_step(bits_v, bits_vd, a, i, precision) ==
    IF Ge(bits_v, as_bits_u128(a[i]))
    THEN recoverable_unit_found(
             is_zero_remainder_decimal(bits_vd, Decimal_from(as_bits_u128(a[i])), precision),
             a[i])
    ELSE None

\* the loop of get_recoverable_unit over a[hi] down to a[lo]: the first turn
\* that returns or panics ends it; the range is halved, the upper half first
RECURSIVE recoverable_unit_loop(_, _, _, _, _, _)
recoverable_unit_lower(upper, bits_v, bits_vd, a, lo, hi, precision) ==
    IF upper # None THEN upper
    ELSE recoverable_unit_loop(bits_v, bits_vd, a, lo, hi, precision)

recoverable_unit_loop(bits_v, bits_vd, a, lo, hi, precision) ==
    IF lo = hi THEN recoverable_unit_step(bits_v, bits_vd, a, lo, precision)
    ELSE recoverable_unit_lower(
             recoverable_unit_loop(bits_v, bits_vd, a, (lo + hi) \div 2 + 1, hi, precision),
             bits_v, bits_vd, a, lo, (lo + hi) \div 2, precision)

\* (bits_vd, Unit::Bit) when the loop ends without a return
recoverable_unit_or_bit(r, bits_vd) ==
    IF r = None THEN [value |-> bits_vd, unit |-> "Bit"] ELSE r

\* the body of get_recoverable_unit on bits_vd == Decimal::from(bits_v) and
\* the units a
recoverable_unit_of(bits_v, bits_vd, a, precision) ==
    IF bits_vd = Panic THEN Panic
    ELSE recoverable_unit_or_bit(
             recoverable_unit_loop(bits_v, bits_vd, a, 1, Len(a),
                                   IF precision >= 28 THEN 28 ELSE precision),
             bits_vd)

Bit_get_recoverable_unit(self, allow_in_bytes, precision) ==
    recoverable_unit_of(self, Decimal_from(self),
                        IF allow_in_bytes THEN get_multiples ELSE get_multiples_bits,
                        precision)

(***************************************************************************)
(* Display                                                                 *)
(***************************************************************************)
DigitChars == <<"0", "1", "2", "3", "4", "5", "6", "7", "8", "9">>

\* the digits of n, most significant first
u128_to_string(n) ==
    IF n = Zero THEN <<"0">> ELSE [i \in 1..Len(n) |-> DigitChars[n[Len(n) + 1 - i] + 1]]

\* the fraction written without its leading zeros
Decimal_to_string_unpadded(a) ==
    IF a.s = 0 THEN u128_to_string(a.m)
    ELSE u128_to_string(ShiftDown(a.m, a.s)) \o <<".">> \o u128_to_string(LowDigits(a.m, a.s))

\* Display of a Decimal: the integer part, and a point and s digits when s > 0
Decimal_to_string(a) ==
    IF a.s = 0 THEN u128_to_string(a.m)
    ELSE u128_to_string(ShiftDown(a.m, a.s)) \o <<".">>
            \o [i \in 1..a.s |-> DigitChars[Digit(a.m, a.s + 1 - i) + 1]]

Spaces(n) == [i \in 1..n |-> " "]

\* Formatter padding to a width: align is "<", "^" or ">"
Pad(str, width, align) ==
    IF width <= Len(str) THEN str
    ELSE LET n == width - Len(str)
         IN CASE align = "<" -> str \o Spaces(n)
              [] align = ">" -> Spaces(n) \o str
              [] OTHER -> Spaces(n \div 2) \o str \o Spaces(n - n \div 2)

\* the flags of a Formatter: {:#}, {:.p}, {:+}, {:-}, {:w} and an alignment or ""
Formatter(alternate, precision, sign_plus, sign_minus, width, align) ==
    [alternate |-> alternate, precision |-> precision, sign_plus |-> sign_plus,
     sign_minus |-> sign_minus, width |-> width, align |-> align]

\* Display::fmt(&self.0, f) of the u128: a number is right-aligned by default
u128_fmt(n, f) ==
    LET str == (IF f.sign_plus THEN <<"+">> ELSE << >>) \o u128_to_string(n)
    IN IF f.width.some THEN Pad(str, f.width.v, IF f.align = "" THEN ">" ELSE f.align) ELSE str

space_length(f, unit) ==
    IF f.sign_plus THEN 4 - Len(unit)
    ELSE IF f.sign_minus THEN 0
    ELSE 1

\* a variant that centres the value when the alignment is Center
write_value_unit_centred(value, unit, spaces, f) ==
    (IF f.width.some /\ f.width.v > Len(unit) + spaces + 1
     THEN Pad(value, f.width.v - (Len(unit) + spaces), IF f.align = "" THEN "<" ELSE f.align)
     ELSE value) \o Spaces(spaces) \o unit

\* the value in its width, the spaces and the unit
write_value_unit(value, unit, spaces, f) ==
    (IF f.width.some /\ f.width.v > Len(unit) + spaces + 1
     THEN Pad(value, f.width.v - (Len(unit) + spaces), IF f.align = ">" THEN ">" ELSE "<")
     ELSE value) \o Spaces(spaces) \o unit

\* the alternate form, on r == self.get_recoverable_unit(false, precision)
fmt_alternate(r, f) ==
    IF r = Panic THEN Panic
    ELSE Ok(write_value_unit(Decimal_to_string(Decimal_normalize(r.value)), as_str(r.unit),
                             space_length(f, as_str(r.unit)), f))

\* Ok with the string written, or a panic
Bit_fmt(self, f) ==
    IF f.alternate
    THEN fmt_alternate(
             Bit_get_recoverable_unit(self, FALSE, IF f.precision.some THEN f.precision.v ELSE 3),
             f)
    ELSE Ok(u128_fmt(self, f))

(***************************************************************************)
(* Bit::parse_str                                                          *)
(***************************************************************************)
ParseError_Value(e) == [kind |-> "Value", error |-> e]
ParseError_Unit(e) == [kind |-> "Unit", error |-> e]

NotNumber(character) == [variant |-> "NotNumber", character |-> character]
NoValue == [variant |-> "NoValue"]
NumberTooLong == [variant |-> "NumberTooLong"]
ExceededBounds(value) == [variant |-> "ExceededBounds", value |-> value]

IsDigit(e) == \E d \in 1..10 : DigitChars[d] = e
DigitOf(e) == Dec(FromInt((CHOOSE d \in 1..10 : DigitChars[d] = e) - 1), 0)

\* Self::from_decimal_with_unit(value, unit).ok_or_else(ExceededBounds(value))
ok_or_exceeded_bounds(value, bit) ==
    IF bit.some THEN Ok(bit.v) ELSE Err(ParseError_Value(ExceededBounds(value)))

\* the value in the unit that read_xib returned
build_with_unit(value, unit) ==
    IF ~unit.ok THEN Err(ParseError_Unit(unit.err))
    ELSE ok_or_exceeded_bounds(value, Bit_from_decimal_with_unit(value, unit.v))

\* the end of parse_str: the unit from the character e and what follows, then
\* the value in that unit
parse_unit_and_build(value, e, bits) == build_with_unit(value, read_xib(e, bits, FALSE, FALSE))

\* the last index of the run of digits that follows position p
DigitsEnd(bits, p) ==
    CHOOSE j \in p..Len(bits) :
        /\ \A i \in (p + 1)..j : IsDigit(bits[i])
        /\ j = Len(bits) \/ ~IsDigit(bits[j + 1])

\* the last index of the run of spaces that follows position p
SpacesEnd(bits, p) ==
    CHOOSE j \in p..Len(bits) :
        /\ \A i \in (p + 1)..j : bits[i] = " "
        /\ j = Len(bits) \/ bits[j + 1] # " "

\* .ok_or(ValueParseError::NumberTooLong)
ok_or_number_too_long(sum) ==
    IF sum.some THEN Ok(sum.v) ELSE Err(ParseError_Value(NumberTooLong))

\* .checked_add(Decimal::from(e - b'0')) on ten == value.checked_mul(Decimal::TEN)
add_digit(ten, e) == IF ten.some THEN Decimal_checked_add(ten.v, DigitOf(e)) ELSE None

\* one turn of the outer loop on a digit: value * 10 + digit, or NumberTooLong
integer_step(value, e) ==
    ok_or_number_too_long(add_digit(Decimal_checked_mul(value, Decimal_TEN), e))

\* the turns of the outer loop on the digits bits[lo..hi], in order, stopping
\* at an error; the range is halved so that the evaluation nests to the
\* logarithm of its length
RECURSIVE integer_loop(_, _, _, _)
integer_loop(acc, bits, lo, hi) ==
    IF lo > hi \/ ~acc.ok THEN acc
    ELSE IF lo = hi THEN integer_step(acc.v, bits[lo])
    ELSE integer_loop(integer_loop(acc, bits, lo, (lo + hi) \div 2),
                      bits, (lo + hi) \div 2 + 1, hi)

\* value += d: the operator panics on overflow
ok_or_panic(sum) == IF sum = Panic THEN Panic ELSE Ok(sum)

\* d.set_scale(i).map_err(NumberTooLong)?, then value += d
add_scaled_digit(value, d) ==
    IF ~d.some THEN Err(ParseError_Value(NumberTooLong))
    ELSE ok_or_panic(Decimal_add(value, d.v))

\* one turn of the loop after the point on the i-th fractional digit
fraction_step(value, e, i) == add_scaled_digit(value, Decimal_set_scale(DigitOf(e), i))

\* the turns of the loop after the point on the digits bits[lo..hi], the first
\* fractional digit being bits[first], stopping at an error or a panic
RECURSIVE fraction_loop(_, _, _, _, _)
fraction_loop(acc, bits, first, lo, hi) ==
    IF acc = Panic THEN Panic
    ELSE IF lo > hi \/ ~acc.ok THEN acc
    ELSE IF lo = hi THEN fraction_step(acc.v, bits[lo], lo - first + 1)
    ELSE fraction_loop(fraction_loop(acc, bits, first, lo, (lo + hi) \div 2),
                       bits, first, (lo + hi) \div 2 + 1, hi)

\* after the spaces that end at position q: the unit, or the end
after_spaces(value, bits, q) ==
    IF q = Len(bits) THEN parse_unit_and_build(value, None, << >>)
    ELSE parse_unit_and_build(value, Some(bits[q + 1]), SubSeq(bits, q + 2, Len(bits)))

\* a variant that skips one space only
parse_one_space(value, bits, p) == after_spaces(value, bits, p)

\* the loops over spaces, then the unit: the spaces follow position p
parse_spaces(value, bits, p) == after_spaces(value, bits, SpacesEnd(bits, p))

\* a variant that lets the point stand without a digit after it
after_fraction_lenient(r, bits, p, q) ==
    IF r = Panic THEN Panic
    ELSE IF ~r.ok THEN r
    ELSE IF q = Len(bits) THEN parse_unit_and_build(r.v, None, << >>)
    ELSE IF bits[q + 1] = " " THEN parse_spaces(r.v, bits, q + 1)
    ELSE parse_unit_and_build(r.v, Some(bits[q + 1]), SubSeq(bits, q + 2, Len(bits)))

\* after the fractional digits bits[p+1..q], r being what their loop gave
after_fraction(r, bits, p, q) ==
    IF r = Panic THEN Panic
    ELSE IF ~r.ok THEN r
    ELSE IF q = Len(bits)
    THEN IF q = p THEN Err(ParseError_Value(NotNumber(".")))
         ELSE parse_unit_and_build(r.v, None, << >>)
    ELSE IF q = p THEN Err(ParseError_Value(NotNumber(bits[q + 1])))
    ELSE IF bits[q + 1] = " " THEN parse_spaces(r.v, bits, q + 1)
    ELSE parse_unit_and_build(r.v, Some(bits[q + 1]), SubSeq(bits, q + 2, Len(bits)))

\* the fractional digits that follow the point at position p end at q
parse_fraction_digits(value, bits, p, q) ==
    after_fraction(fraction_loop(Ok(value), bits, p + 1, p + 1, q), bits, p, q)

\* after the point at position p
parse_fraction(value, bits, p) == parse_fraction_digits(value, bits, p, DigitsEnd(bits, p))

\* after the integer digits bits[1..q], r being what the outer loop gave
after_integer(r, bits, q) ==
    IF ~r.ok THEN r
    ELSE IF q = Len(bits) THEN parse_unit_and_build(r.v, None, << >>)
    ELSE IF bits[q + 1] = "." THEN parse_fraction(r.v, bits, q + 1)
    ELSE IF bits[q + 1] = " " THEN parse_spaces(r.v, bits, q + 1)
    ELSE parse_unit_and_build(r.v, Some(bits[q + 1]), SubSeq(bits, q + 2, Len(bits)))

\* the integer digits of bits end at q
parse_integer_digits(bits, q) ==
    after_integer(integer_loop(Ok(DigitOf(bits[1])), bits, 2, q), bits, q)

\* parse_str on the trimmed string
parse_trimmed(bits) ==
    IF bits = << >> THEN Err(ParseError_Value(NoValue))
    ELSE IF ~IsDigit(bits[1]) THEN Err(ParseError_Value(NotNumber(bits[1])))
    ELSE parse_integer_digits(bits, DigitsEnd(bits, 1))

\* Ok(bits), Err(ParseError) or a panic
Bit_parse_str(s) == parse_trimmed(trim(s))

(***************************************************************************)
(* SpecUnit: Unit::parse_str on every string of up to MaxUnitLen           *)
(* characters of UnitChars and on the written forms of the units.          *)
(***************************************************************************)
MaxUnitLen == 3

UnitChars == {"b", "B", "i", "I", "t", "s", "k", "K", "m", "Y", "c", " "}

RECURSIVE Strings(_, _)
Strings(chars, n) ==
    IF n = 0 THEN {<< >>}
    ELSE LET shorter == Strings(chars, n - 1)
         IN shorter \cup {Append(s, c) : s \in shorter, c \in chars}

UnitWords ==
    {as_str(u) : u \in Unit}
        \cup {as_str(u) \o w : u \in Unit, w \in {<<"i", "t">>, <<"i", "t", "s">>, <<"I", "T", "S">>}}
        \cup {<<"k", "b", "i">>, <<"k", "b", "i", "t", "s", "s">>, <<"K", "i", "b", "i", "x">>,
              <<"K", "i", "b", "c">>, <<"b", "i", "t", "c">>, <<"p", "I", "B">>}

UnitInputs == Strings(UnitChars, MaxUnitLen) \cup UnitWords

ParseUnit ==
    /\ nops = 0
    /\ \E s \in UnitInputs, ignore_case \in BOOLEAN, prefer_byte \in BOOLEAN :
           /\ ret' = Unit_parse_str(s, ignore_case, prefer_byte)
           /\ op' = Op("Unit::parse_str", "Unit", obj.v,
                       [s |-> s, ignore_case |-> ignore_case, prefer_byte |-> prefer_byte])
           /\ nops' = nops + 1
           /\ UNCHANGED obj

NextUnit == ParseUnit

SpecUnit == Init /\ [][NextUnit]_vars

\* C10: the unit of "1kb", parsed with ignore_case = false, is Kbit when
\* prefer_byte is false and KB when prefer_byte is true.
C10_KbFollowsPreferByte ==
    (/\ op.name = "Unit::parse_str"
     /\ op.args.s = <<"k", "b">>
     /\ ~op.args.ignore_case)
        => ret = Ok(IF op.args.prefer_byte THEN "KB" ELSE "Kbit")

\* C10, as the code has it: with ignore_case = false the lower-case b of "kb"
\* names the bit, so the unit is Kbit whatever prefer_byte is; the unit is KB
\* when ignore_case is true, again whatever prefer_byte is.
C10_KbFollowsIgnoreCase ==
    (op.name = "Unit::parse_str" /\ op.args.s = <<"k", "b">>)
        => ret = Ok(IF op.args.ignore_case THEN "KB" ELSE "Kbit")

\* C10 happens: "kb" is parsed with ignore_case = false and prefer_byte = true
C10_KbParsedPreferringByte ==
    /\ op.name = "Unit::parse_str"
    /\ op.args.s = <<"k", "b">>
    /\ ~op.args.ignore_case
    /\ op.args.prefer_byte
    /\ ret = Ok("Kbit")
\* the letters that name a prefix, in either case
PrefixLetters ==
    {Prefixes[k] : k \in 1..Len(Prefixes)}
        \cup {to_ascii_lowercase(Prefixes[k]) : k \in 1..Len(Prefixes)}

\* a prefix as it may be written: none, P, Pi or PI
WrittenPrefixes ==
    {<< >>} \cup {<<P>> \o i : P \in PrefixLetters, i \in {<< >>, <<"i">>, <<"I">>}}

\* the prefix in the letters of as_str: P upper-case, i lower-case
Canonical(prefix) ==
    [k \in 1..Len(prefix) |-> IF k = 1 THEN to_ascii_uppercase(prefix[k]) ELSE "i"]

\* the unit that as_str writes as str
UnitWritten(str) == CHOOSE unit \in Unit : as_str(unit) = str

\* C11: ignore_case decides what a lower-case b at the end means: with
\* ignore_case = true a b or B at the end is the byte (b -> B, Pb -> PB,
\* Pib -> PiB for every prefix P); with ignore_case = false b is the bit and B
\* the byte.
C11_IgnoreCaseDecidesLowerB ==
    op.name = "Unit::parse_str" =>
        \A prefix \in WrittenPrefixes, base \in {"b", "B"} :
            op.args.s = prefix \o <<base>> =>
                ret = Ok(UnitWritten(Canonical(prefix)
                            \o <<IF op.args.ignore_case \/ base = "B" THEN "B" ELSE "b">>))

\* C11 happens: "Pib" read with ignore_case = true is PiB
C11_LowerBReadAsByte ==
    /\ op.name = "Unit::parse_str"
    /\ op.args.s = <<"P", "i", "b">>
    /\ op.args.ignore_case
    /\ ret = Ok("PiB")

\* C12: prefer_byte decides the base exactly when the string names none: "",
\* "P" and "Pi" give B, PB, PiB when prefer_byte is true and Bit, Pbit, Pibit
\* when it is false, for every prefix P and either ignore_case.
C12_PreferByteDecidesUnnamedBase ==
    op.name = "Unit::parse_str" =>
        \A prefix \in WrittenPrefixes :
            op.args.s = prefix =>
                ret = Ok(UnitWritten(Canonical(prefix)
                            \o <<IF op.args.prefer_byte THEN "B" ELSE "b">>))

\* C12 happens: "Ki" read with prefer_byte = true is KiB
C12_BareBinaryPrefixAsByte ==
    /\ op.name = "Unit::parse_str"
    /\ op.args.s = <<"K", "i">>
    /\ op.args.prefer_byte
    /\ ret = Ok("KiB")

\* C13: Unit::parse_str(u.as_str(), false, p) is Ok(u) for every unit u and
\* both p, and as_str is injective.
C13_AsStrThenParseIsIdentity ==
    /\ Cardinality({as_str(unit) : unit \in Unit}) = Cardinality(Unit)
    /\ (op.name = "Unit::parse_str" /\ ~op.args.ignore_case) =>
           \A unit \in Unit : op.args.s = as_str(unit) => ret = Ok(unit)

\* C13 happens: "ZiB", which as_str writes for ZiB, is read back
C13_ZiBReadBack ==
    /\ op.name = "Unit::parse_str"
    /\ ~op.args.ignore_case
    /\ op.args.s = as_str("ZiB")
    /\ ret = Ok("ZiB")

\* it and its after a base, in any case
BitSuffixes ==
    {<< >>}
        \cup {<<i, t>> : i \in {"i", "I"}, t \in {"t", "T"}}
        \cup {<<i, t, x>> : i \in {"i", "I"}, t \in {"t", "T"}, x \in {"s", "S"}}

\* the strings that are one unit: nothing, or a prefix, or a prefix and a
\* base, the base perhaps followed by it or its
UnitLanguage ==
    WrittenPrefixes
        \cup {prefix \o <<base>> \o suffix :
                prefix \in WrittenPrefixes, base \in {"b", "B"}, suffix \in BitSuffixes}

\* C14: Unit::parse_str accepts a trimmed string only if the whole of it is
\* one unit - the empty string, B, P, Pi, PB or PiB, each B perhaps followed
\* by it or its - and returns Err for any other string.
C14_AcceptsExactlyTheUnits ==
    op.name = "Unit::parse_str" => (ret.ok <=> trim(op.args.s) \in UnitLanguage)

\* C14 happens: a byte after a complete unit is refused
C14_TrailingByteRefused ==
    /\ op.name = "Unit::parse_str"
    /\ op.args.s = <<"K", "i", "b", "c">>
    /\ ~ret.ok

\* the strings that spell bit or bits after a prefix and a b or B, each with
\* its prefix in the letters of as_str
SpelledBit ==
    {<<prefix \o <<base>> \o suffix, Canonical(prefix)>> :
        prefix \in WrittenPrefixes, base \in {"b", "B"}, suffix \in BitSuffixes \ {<< >>}}

SpelledBitStrings == {w[1] : w \in SpelledBit}

\* the prefix, in the letters of as_str, of a string of SpelledBitStrings
SpelledPrefix(str) == (CHOOSE w \in SpelledBit : w[1] = str)[2]

\* C27: a unit string that spells bit or bits, in any case, after the prefix
\* and the b or B is the bit-based unit of the prefix whatever ignore_case
\* and prefer_byte are, and bi, bic and bitc are refused.
C27_SpelledBitIsBitBased ==
    op.name = "Unit::parse_str" =>
        /\ op.args.s \in SpelledBitStrings =>
               ret = Ok(UnitWritten(SpelledPrefix(op.args.s) \o <<"b">>))
        /\ op.args.s \in {<<"b", "i">>, <<"b", "i", "c">>, <<"b", "i", "t", "c">>} => ~ret.ok

\* C27 happens: KiBits read with prefer_byte = true and ignore_case = false
\* is Kibit
C27_UpperBWithBits ==
    /\ op.name = "Unit::parse_str"
    /\ op.args.s = <<"K", "i", "B", "i", "t", "s">>
    /\ ~op.args.ignore_case
    /\ op.args.prefer_byte
    /\ ret = Ok("Kibit")

\* the beginnings of the strings that are one unit
UnitPrefixes == UNION {{SubSeq(u, 1, k) : k \in 0..Len(u)} : u \in UnitLanguage}

\* the characters of the strings that are one unit
LanguageChars == PrefixLetters \cup {"b", "B", "i", "I", "t", "T", "s", "S"}

\* the first position at which t is no longer the beginning of a unit, or
\* Len(t) + 1 when all of t is
LeavesAt(t) ==
    CHOOSE n \in 1..(Len(t) + 1) :
        /\ \A k \in 0..(n - 1) : SubSeq(t, 1, k) \in UnitPrefixes
        /\ n <= Len(t) => SubSeq(t, 1, n) \notin UnitPrefixes

\* C25: when Unit::parse_str fails, character is the character of the input
\* at the first position where the input leaves the grammar,
\* expected_characters are the characters that would have been valid at that
\* position (a letter stands for both of its cases), and
\* also_expect_no_character tells whether the input could have ended there.
C25_ErrorDescribesFailure ==
    (op.name = "Unit::parse_str" /\ ~ret.ok) =>
        /\ LeavesAt(trim(op.args.s)) <= Len(trim(op.args.s))
        /\ ret.err.character = trim(op.args.s)[LeavesAt(trim(op.args.s))]
        /\ {to_ascii_uppercase(ret.err.expected_characters[k]) :
                 k \in 1..Len(ret.err.expected_characters)}
               = {to_ascii_uppercase(c) : c \in {x \in LanguageChars :
                    Append(SubSeq(trim(op.args.s), 1, LeavesAt(trim(op.args.s)) - 1), x)
                        \in UnitPrefixes}}
        /\ ret.err.also_expect_no_character
               <=> SubSeq(trim(op.args.s), 1, LeavesAt(trim(op.args.s)) - 1) \in UnitLanguage

(***************************************************************************)
(* SpecRecover: a Bit is built, then asked for its recoverable unit or     *)
(* written with Display; what Display wrote is parsed back.                *)
(***************************************************************************)
RecoverSizes ==
    {Zero, One, FromInt(8), FromInt(1000), FromInt(1024), FromInt(1050), FromInt(123456),
     FromInt(437500), FromInt(3211776), FromInt(3670016), FromInt(28000000),
     FromInt(15000001), Pow10(12), Pow2(40), MulSmall(Pow2(40), 10), Pow2(80),
     Add(Pow2(80), One), Pow10(24), MulSmall(Pow10(26), 8), Add(MulSmall(Pow10(26), 8), One),
     Sub(MAX, FromInt(127)), Sub(MAX, One), MAX,
     Add(MulSmall(Pow2(80), 793), Pow2(54))}
        \cup {size \in {Add(MulSmall(as_bits_u128(unit), 37), One) : unit \in Unit} :
                Le(size, MAX)}

\* the precisions asked for: the default 3 is among them, 26 is the documented
\* limit, 28 the limit of the Decimal
Precisions == {0, 3, 6, 26, 28}

\* {}, {:#} and {:#.p} for the precisions within the documented limit
Formats ==
    {Formatter(FALSE, None, FALSE, FALSE, None, ""), Formatter(TRUE, None, FALSE, FALSE, None, "")}
        \cup {Formatter(TRUE, Some(precision), FALSE, FALSE, None, "") :
                precision \in {n \in Precisions : n <= 26}}

BitFromU128 ==
    /\ nops = 0
    /\ \E size \in RecoverSizes :
           /\ ret' = Bit_from_u128(size)
           /\ obj' = Keep("Bit", ret')
           /\ op' = Op("from_u128", "Bit", obj.v, [size |-> Unsigned(size)])
           /\ nops' = nops + 1

GetRecoverableUnit ==
    /\ nops = 1
    /\ obj.type = "Bit"
    /\ \E allow_in_bytes \in BOOLEAN, precision \in Precisions :
           /\ ret' = Bit_get_recoverable_unit(obj.v, allow_in_bytes, precision)
           /\ op' = Op("get_recoverable_unit", "Bit", obj.v,
                       [allow_in_bytes |-> allow_in_bytes, precision |-> precision])
           /\ nops' = nops + 1
           /\ UNCHANGED obj

\* format!: Display::fmt writes into a String
Format ==
    /\ nops = 1
    /\ obj.type = "Bit"
    /\ \E f \in Formats :
           /\ ret' = Bit_fmt(obj.v, f)
           /\ op' = Op("fmt", "Bit", obj.v, [f |-> f])
           /\ nops' = nops + 1
           /\ UNCHANGED obj

\* Bit::parse_str on the string that Display wrote
ParseDisplayed ==
    /\ nops = 2
    /\ op.name = "fmt"
    /\ ret # Panic
    /\ ret' = Bit_parse_str(ret.v)
    /\ op' = Op("Bit::parse_str", "Bit", obj.v, [s |-> ret.v, f |-> op.args.f])
    /\ nops' = nops + 1
    /\ UNCHANGED obj

NextRecover ==
    \/ BitFromU128
    \/ GetRecoverableUnit
    \/ Format
    \/ ParseDisplayed

SpecRecover == Init /\ [][NextRecover]_vars

\* the number of fractional digits a Decimal needs
FractionalDigits(d) == Decimal_normalize(d).s

\* unit qualifies for the magnitude v with p fractional digits: v is not
\* below bits(unit), and v / bits(unit) needs no more than p fractional digits
Qualifies(v, unit, p) ==
    /\ Ge(v, as_bits_u128(unit))
    /\ Mod(ShiftUp(v, p), as_bits_u128(unit)) = Zero

\* C3: get_recoverable_unit with a precision p <= 28 returns (q, u) such that
\* q * bits(u) is the magnitude exactly and q has at most p fractional digits;
\* when no multiple unit qualifies, magnitude 0 included, it returns
\* (magnitude, Unit::Bit).
C3_RecoverableUnitIsExact ==
    (op.name = "get_recoverable_unit" /\ op.args.precision <= 28) =>
        /\ ret # Panic
        /\ Mul(ret.value.m, as_bits_u128(ret.unit)) = ShiftUp(op.self, ret.value.s)
        /\ FractionalDigits(ret.value) <= op.args.precision
        /\ (\A unit \in Unit \ {"Bit"} : ~Qualifies(op.self, unit, op.args.precision))
               => (ret.unit = "Bit" /\ Decimal_normalize(ret.value) = Dec(op.self, 0))

\* the units get_recoverable_unit may return besides Unit::Bit: the multiples
\* in bits, and the multiples in bytes when allow_in_bytes is set
RecoverableUnits(allow_in_bytes) ==
    {unit \in Unit \ {"Bit", "B"} : allow_in_bytes \/ unit \in BitUnits}

\* C24: get_recoverable_unit with a precision p within the documented limit
\* returns the largest eligible unit that works: no eligible unit with a
\* magnitude larger than that of the returned unit and not larger than the
\* value gives a quotient with at most p fractional digits. 123456 bits with
\* the flag and p = 3 give (15.432, KB), 10 Tibit give (1.25, TiB).
C24_LargestRecoverableUnit ==
    (op.name = "get_recoverable_unit" /\ op.args.precision <= 26) =>
        /\ ret # Panic
        /\ \A unit \in RecoverableUnits(op.args.allow_in_bytes) :
               Gt(as_bits_u128(unit), as_bits_u128(ret.unit))
                   => ~Qualifies(op.self, unit, op.args.precision)
        /\ (op.self = FromInt(123456) /\ op.args.allow_in_bytes /\ op.args.precision = 3)
               => (ret.unit = "KB" /\ Decimal_normalize(ret.value) = Dec(FromInt(15432), 3))
        /\ (op.self = MulSmall(Pow2(40), 10) /\ op.args.allow_in_bytes /\ op.args.precision = 3)
               => (ret.unit = "TiB" /\ Decimal_normalize(ret.value) = Dec(FromInt(125), 2))

\* C2: the string that Display writes for a Bit - {}, {:#} or {:#.p} with p
\* within the documented limit - is accepted by Bit::parse_str and parses back
\* to the same Bit.
C2_DisplayThenParseIsIdentity ==
    op.name = "Bit::parse_str" => ret = Ok(obj.v)

\* C2 happens: a value written with a fraction and a unit is read back
C2_FractionReadBack ==
    /\ op.name = "Bit::parse_str"
    /\ op.args.s = <<"3", "1", "3", "6", ".", "5", " ", "K", "i", "b">>
    /\ ret = Ok(FromInt(3211776))
(***************************************************************************)
(* SpecParse: Bit::parse_str on a decimal literal - integer digits, then   *)
(* perhaps a point and fractional digits - followed by spaces and a unit.  *)
(***************************************************************************)
\* the longest run of zeros in front of the last fractional digit
MaxFracZeros == 27

\* the integer digits: those of a magnitude
IntegerParts ==
    {u128_to_string(n) :
        n \in {Zero, One, FromInt(7), FromInt(123), FromInt(999), FromInt(1000),
               U64_MAX, Sub(Pow10(26), One), MAX, MANTISSA_MAX, Add(MANTISSA_MAX, One),
               Pow10(29)}}

\* the fractional digits: none, or zeros and a last digit
FractionParts ==
    {<< >>} \cup {Spaces(0) \o [i \in 1..zeros |-> "0"] \o <<d>> :
                    zeros \in {0, 1, 2, MaxFracZeros, MaxFracZeros + 1}, d \in {"1", "9"}}

\* the units of the claims' examples, the largest ones, and none
ParseUnits == {"Bit", "B", "Kbit", "KB", "Kibit", "Eibit", "Ybit"}

\* the literal as it is written: a.b, u after sep
Literal(int, frac, sep, unit) ==
    int \o (IF frac = << >> THEN << >> ELSE <<".">> \o frac) \o sep \o unit

ParseStr ==
    /\ nops = 0
    /\ \E int \in IntegerParts, frac \in FractionParts, sep \in {<< >>, <<" ">>},
          unit \in ParseUnits, written \in BOOLEAN :
           /\ written \/ (unit = "Bit" /\ sep = << >>)
           /\ ret' = Bit_parse_str(Literal(int, frac, sep, IF written THEN as_str(unit) ELSE << >>))
           /\ obj' = IF ret' # Panic /\ ret'.ok THEN Obj("Bit", ret'.v) ELSE obj
           /\ op' = Op("Bit::parse_str", "Bit", obj.v,
                       [s |-> Literal(int, frac, sep, IF written THEN as_str(unit) ELSE << >>),
                        int |-> int, frac |-> frac, unit |-> unit])
           /\ nops' = nops + 1

\* the longest text that is not built as a literal
MaxTextLen == 3

ParseChars == {"0", "1", "5", ".", "-", "b", "i", "K", " "}

\* Bit::parse_str on any text of ParseChars
ParseText ==
    /\ nops = 0
    /\ \E s \in Strings(ParseChars, MaxTextLen) :
           /\ ret' = Bit_parse_str(s)
           /\ obj' = IF ret' # Panic /\ ret'.ok THEN Obj("Bit", ret'.v) ELSE obj
           /\ op' = Op("Bit::parse_str", "Bit", obj.v, [s |-> s])
           /\ nops' = nops + 1

\* the runs of white space that are put into a literal
Runs == {<< >>, <<" ">>, <<" ", " ">>, <<"\t">>, <<" ", "\t">>}

\* the numbers and the unit suffixes that white space is put around
SpacedNumbers == {<<"1">>, <<"1", ".", "5">>}
SpacedSuffixes == {<< >>} \cup {as_str(u) : u \in {"Bit", "B", "Kibit"}}

\* Bit::parse_str on a number and a unit suffix with white space before,
\* between and after them
ParseSpaced ==
    /\ nops = 0
    /\ \E number \in SpacedNumbers, suffix \in SpacedSuffixes,
          before \in Runs, between \in Runs, after \in Runs :
           /\ ret' = Bit_parse_str(before \o number \o between \o suffix \o after)
           /\ obj' = IF ret' # Panic /\ ret'.ok THEN Obj("Bit", ret'.v) ELSE obj
           /\ op' = Op("Bit::parse_str", "Bit", obj.v,
                       [s |-> before \o number \o between \o suffix \o after,
                        number |-> number, suffix |-> suffix,
                        before |-> before, between |-> between, after |-> after])
           /\ nops' = nops + 1

NextParse ==
    \/ ParseStr
    \/ ParseText
    \/ ParseSpaced

SpecParse == Init /\ [][NextParse]_vars

\* the number that a string of digits writes
DigitsValue(str) ==
    Norm([i \in 1..Len(str) |-> (CHOOSE d \in 1..10 : DigitChars[d] = str[Len(str) + 1 - i]) - 1])

\* ceil(v * bits(u)) for the literal v == int.frac
CeilScaled(int, frac, unit) ==
    LET n == Mul(DigitsValue(int \o frac), as_bits_u128(unit))
    IN IF LowDigits(n, Len(frac)) = Zero THEN ShiftDown(n, Len(frac))
       ELSE Add(ShiftDown(n, Len(frac)), One)

\* the numeric parser accepted the literal: no NumberTooLong, no panic
Accepted ==
    /\ op.name = "Bit::parse_str"
    /\ "int" \in DOMAIN op.args
    /\ ret # Panic
    /\ ret # Err(ParseError_Value(NumberTooLong))

\* C7: Bit::parse_str on a decimal literal v followed by an optional unit u
\* returns the magnitude ceil(v * bits(u)): the fraction of the scaled
\* product is rounded up.
C7_ParseRoundsUp ==
    (Accepted /\ Le(CeilScaled(op.args.int, op.args.frac, op.args.unit), MAX)) =>
        ret = Ok(CeilScaled(op.args.int, op.args.frac, op.args.unit))

\* C8: for a literal v that the numeric parser accepts and a unit u,
\* Bit::parse_str returns Ok exactly when ceil(v * bits(u)) <= MAX, and
\* Err(ParseError::Value(ValueParseError::ExceededBounds(v))) otherwise.
C8_OkExactlyWithinMax ==
    Accepted =>
        IF Le(CeilScaled(op.args.int, op.args.frac, op.args.unit), MAX)
        THEN ret.ok
        ELSE /\ ~ret.ok
             /\ ret.err.kind = "Value"
             /\ ret.err.error.variant = "ExceededBounds"

\* the number of digits that str begins with
LeadingDigits(str) ==
    CHOOSE j \in 0..Len(str) :
        /\ \A i \in 1..j : IsDigit(str[i])
        /\ j = Len(str) \/ ~IsDigit(str[j + 1])

\* C15: Bit::parse_str returns Err(Value(NoValue)) exactly when the trimmed
\* input is empty, Err(Value(NotNumber(c))) when the first character c of the
\* trimmed input is not a digit, and Err(Value(NotNumber(_))) when the point
\* is not followed at once by a digit: of the character that follows, or of
\* the point itself at the end of the input.
C15_ValueSyntaxErrors ==
    op.name = "Bit::parse_str" =>
        LET t == trim(op.args.s)
            j == LeadingDigits(t)
        IN /\ (ret = Err(ParseError_Value(NoValue))) <=> (t = << >>)
           /\ (t # << >> /\ j = 0) => ret = Err(ParseError_Value(NotNumber(t[1])))
           /\ (j > 0 /\ j < Len(t) /\ t[j + 1] = "." /\ ret # Err(ParseError_Value(NumberTooLong))) =>
                  /\ j + 1 = Len(t) => ret = Err(ParseError_Value(NotNumber(".")))
                  /\ (j + 1 < Len(t) /\ ~IsDigit(t[j + 2])) =>
                         ret = Err(ParseError_Value(NotNumber(t[j + 2])))

\* C15 happens: the point ends the input
C15_PointAtEnd ==
    /\ op.name = "Bit::parse_str"
    /\ op.args.s = <<"1", ".">>
    /\ ret = Err(ParseError_Value(NotNumber(".")))

\* C16: Bit::parse_str ends with Ok or Err for every input and never panics:
\* a literal too long for the Decimal - in its integer digits, in the number
\* of its fractional digits, or when a fractional digit is added to an
\* integer part at the Decimal's maximum - gives Err(Value(NumberTooLong)).
C16_ParseNeverPanics ==
    op.name = "Bit::parse_str" =>
        /\ ret # Panic
        /\ ("int" \in DOMAIN op.args
              /\ (Gt(DigitsValue(op.args.int), MANTISSA_MAX) \/ Len(op.args.frac) > MAX_SCALE))
               => ret = Err(ParseError_Value(NumberTooLong))

\* white space has been put around a number and a unit suffix
Spaced == op.name = "Bit::parse_str" /\ "between" \in DOMAIN op.args

\* every character of run is the space
OnlySpaces(run) == \A i \in 1..Len(run) : run[i] = " "

\* C26 as it is stated: white space before a number, between the number and
\* its unit suffix, and after them never changes what Bit::parse_str
\* returns.
C26_WhiteSpaceIsSkipped ==
    Spaced => ret = Bit_parse_str(op.args.number \o op.args.suffix)

\* C26: white space around the whole string, and spaces (U+0020) between
\* the number and its unit suffix, never change what Bit::parse_str returns;
\* other white space between the number and the unit suffix is handed to
\* the unit parser and is an error.
C26_SpacesAreSkipped ==
    Spaced =>
        IF OnlySpaces(op.args.between) \/ op.args.suffix = << >>
        THEN ret = Bit_parse_str(op.args.number \o op.args.suffix)
        ELSE ~ret.ok /\ ret.err.kind = "Unit"

\* C26 happens: '1  b' with a tab before and after is one bit
C26_TwoSpacesBeforeUnit ==
    /\ Spaced
    /\ op.args.s = <<"\t", "1", " ", " ", "b", " ", "\t">>
    /\ ret = Ok(One)

(***************************************************************************)
(* f64: a finite non-negative double is m * 2^e with m = 0 (and e = 0) or  *)
(* 2^52 <= m < 2^53; the values of this section stay far from the          *)
(* subnormal and the infinite ranges                                       *)
(***************************************************************************)
F64_MANTISSA_DIGITS == 53

F64(m, e) == [m |-> m, e |-> e]
F64_ZERO == F64(Zero, 0)

Pow2Table == [k \in 0..192 |-> Pow2(k)]

\* the number of bits of a magnitude, found from the number of its decimal digits
BitLen(v) ==
    IF v = Zero THEN 0
    ELSE CHOOSE k \in (((Len(v) - 1) * 3321) \div 1000)..(((Len(v) * 3322) \div 1000) + 1) :
             /\ Lt(v, Pow2Table[k])
             /\ k > 0
             /\ Ge(v, Pow2Table[k - 1])

\* the mantissa q and exponent k after rounding: a carry out of the mantissa
\* moves to the exponent
f64_carry(q, k) ==
    IF q = Pow2Table[F64_MANTISSA_DIGITS] THEN F64(Pow2Table[F64_MANTISSA_DIGITS - 1], k + 1)
    ELSE F64(q, k)

\* round to nearest, ties to even: q is the kept part, r the dropped part of
\* k bits, sticky tells that more non-zero bits follow r
f64_round_parts(q, r, k, sticky) ==
    IF Gt(r, Pow2Table[k - 1]) \/ (r = Pow2Table[k - 1] /\ (sticky \/ q[1] % 2 = 1))
    THEN f64_carry(Add(q, One), k)
    ELSE F64(q, k)

f64_round_len(v, len, sticky) ==
    IF len <= F64_MANTISSA_DIGITS
    THEN F64(Mul(v, Pow2Table[F64_MANTISSA_DIGITS - len]), len - F64_MANTISSA_DIGITS)
    ELSE f64_round_parts(Div(v, Pow2Table[len - F64_MANTISSA_DIGITS]),
                         Mod(v, Pow2Table[len - F64_MANTISSA_DIGITS]),
                         len - F64_MANTISSA_DIGITS, sticky)

\* the double nearest to v * 2^0, v an integer
f64_round(v, sticky) == IF v = Zero THEN F64_ZERO ELSE f64_round_len(v, BitLen(v), sticky)

\* `v as f64` for a u128
u128_as_f64(v) == f64_round(v, FALSE)

f64_scale(x, e) == IF x.m = Zero THEN x ELSE F64(x.m, x.e + e)

f64_div_parts(qr, e) == f64_scale(f64_round(qr.q, qr.r # Zero), e)

\* a / b for b > 0: the quotient of the mantissas is taken with 54 more
\* bits and rounded once
f64_div(a, b) ==
    IF a.m = Zero THEN F64_ZERO
    ELSE f64_div_parts(DivMod(Mul(a.m, Pow2Table[F64_MANTISSA_DIGITS + 1]), b.m),
                       a.e - b.e - (F64_MANTISSA_DIGITS + 1))

\* u128 << 3: the bits shifted out are lost
shl3(v) == Mod(MulSmall(v, 8), Pow2Table[128])

(***************************************************************************)
(* Adjusted values                                                         *)
(***************************************************************************)
AdjustedBit(value, unit) == [value |-> value, unit |-> unit]
AdjustedByte(value, unit) == [value |-> value, unit |-> unit]

Bit_get_adjusted_unit(self, unit) ==
    AdjustedBit(CASE unit = "Bit" -> u128_as_f64(shl3(Bit_as_u128(self)))
                  [] unit = "B" -> u128_as_f64(Bit_as_u128(self))
                  [] OTHER -> f64_div(u128_as_f64(Bit_as_u128(self)),
                                      u128_as_f64(as_bits_u128(unit))),
                unit)

Byte_get_adjusted_unit(self, unit) ==
    AdjustedByte(CASE unit = "Bit" -> u128_as_f64(shl3(Byte_as_u128(self)))
                   [] unit = "B" -> u128_as_f64(Byte_as_u128(self))
                   [] OTHER -> f64_div(u128_as_f64(Byte_as_u128(self)),
                                       u128_as_f64(as_bytes_u128(unit))),
                 unit)

UnitType == {"Binary", "Decimal", "Both"}

skip_step_binary(unit_type) == [skip |-> 0, step |-> 2]

\* (skip, step) of the walk down the multiples
skip_step(unit_type) ==
    CASE unit_type = "Binary" -> [skip |-> 0, step |-> 2]
      [] unit_type = "Decimal" -> [skip |-> 1, step |-> 2]
      [] unit_type = "Both" -> [skip |-> 0, step |-> 1]

RECURSIVE Bit_appropriate_unit_loop_le(_, _, _, _)
Bit_appropriate_unit_loop_le(self, a, i, step) ==
    IF i < 1 THEN Bit_get_adjusted_unit(self, "B")
    ELSE IF Le(Bit_as_u128(self), as_bits_u128(a[i]))
         THEN Bit_get_adjusted_unit(self, a[i])
         ELSE Bit_appropriate_unit_loop_le(self, a, i - step, step)

\* for unit in a.iter().rev().skip(skip).step_by(step), from a[i] down
RECURSIVE Bit_appropriate_unit_loop(_, _, _, _)
Bit_appropriate_unit_loop(self, a, i, step) ==
    IF i < 1 THEN Bit_get_adjusted_unit(self, "B")
    ELSE IF Ge(Bit_as_u128(self), as_bits_u128(a[i]))
         THEN Bit_get_adjusted_unit(self, a[i])
         ELSE Bit_appropriate_unit_loop(self, a, i - step, step)

Bit_get_appropriate_unit(self, unit_type) ==
    Bit_appropriate_unit_loop(self, get_multiples_bits,
                              Len(get_multiples_bits) - skip_step(unit_type).skip,
                              skip_step(unit_type).step)

RECURSIVE Byte_appropriate_unit_loop_le(_, _, _, _)
Byte_appropriate_unit_loop_le(self, a, i, step) ==
    IF i < 1 THEN Byte_get_adjusted_unit(self, "B")
    ELSE IF Le(Byte_as_u128(self), as_bytes_u128(a[i]))
         THEN Byte_get_adjusted_unit(self, a[i])
         ELSE Byte_appropriate_unit_loop_le(self, a, i - step, step)

RECURSIVE Byte_appropriate_unit_loop(_, _, _, _)
Byte_appropriate_unit_loop(self, a, i, step) ==
    IF i < 1 THEN Byte_get_adjusted_unit(self, "B")
    ELSE IF Ge(Byte_as_u128(self), as_bytes_u128(a[i]))
         THEN Byte_get_adjusted_unit(self, a[i])
         ELSE Byte_appropriate_unit_loop(self, a, i - step, step)

Byte_get_appropriate_unit(self, unit_type) ==
    Byte_appropriate_unit_loop(self, get_multiples_bytes,
                               Len(get_multiples_bytes) - skip_step(unit_type).skip,
                               skip_step(unit_type).step)

(***************************************************************************)
(* SpecAppropriate: a value is built and its appropriate unit is asked for *)
(***************************************************************************)
\* the magnitudes of the multiples: 1000^k and 1024^k
MultipleMagnitudes == {as_bits_u128(get_multiples_bits[i]) : i \in 1..Len(get_multiples_bits)}

AppropriateSizes ==
    {Zero, One, FromInt(7), FromInt(8), FromInt(9), FromInt(500), FromInt(123 * 1024),
     FromInt(15000000), FromInt(15000001), Pow10(26), MAX}
        \cup MultipleMagnitudes
        \cup {Sub(m, One) : m \in MultipleMagnitudes}
        \cup {Add(m, One) : m \in MultipleMagnitudes}

get_appropriate_unit(type, self, unit_type) ==
    IF type = "Bit" THEN Bit_get_appropriate_unit(self, unit_type)
    ELSE Byte_get_appropriate_unit(self, unit_type)

GetAppropriateUnit ==
    /\ nops = 1
    /\ \E unit_type \in UnitType :
           /\ ret' = get_appropriate_unit(obj.type, obj.v, unit_type)
           /\ op' = Op("get_appropriate_unit", obj.type, obj.v, [unit_type |-> unit_type])
    /\ nops' = nops + 1
    /\ UNCHANGED obj

NextAppropriate ==
    \/ FromU128(AppropriateSizes)
    \/ GetAppropriateUnit

SpecAppropriate == Init /\ [][NextAppropriate]_vars

\* the multiples of the kind of the type that the unit type admits: the
\* binary ones are the powers of 1024, the decimal ones the powers of 1000
Multiples(type) ==
    {unit \in Unit : unit \notin {"Bit", "B"} /\ (unit \in BitUnits <=> type = "Bit")}

IsPowerOf1024(m) == \E k \in 1..8 : m = Pow2Table[10 * k]
IsPowerOf1000(m) == \E k \in 1..8 : m = Pow10(3 * k)

Eligible(type, unit_type) ==
    {unit \in Multiples(type) :
        \/ unit_type \in {"Binary", "Both"} /\ IsPowerOf1024(Magnitude(type, unit))
        \/ unit_type \in {"Decimal", "Both"} /\ IsPowerOf1000(Magnitude(type, unit))}

\* the eligible units that do not exceed the value
NotExceeding(type, self, unit_type) ==
    {unit \in Eligible(type, unit_type) : Le(Magnitude(type, unit), self)}

Mega(type) == IF type = "Bit" THEN "Mbit" ELSE "MB"
Mebi(type) == IF type = "Bit" THEN "Mibit" ELSE "MiB"
Kilo(type) == IF type = "Bit" THEN "Kbit" ELSE "KB"

\* C19: when some multiple of the kind of the value that the unit type admits
\* does not exceed the value, get_appropriate_unit returns the one of them
\* with the largest magnitude; 15,000,000 gives the mega unit for Decimal
\* and the mebi unit for Binary and for Both, 123 x 1024 the kilo unit for
\* Decimal.
C19_LargestUnitNotExceeding ==
    op.name = "get_appropriate_unit" =>
        /\ NotExceeding(op.type, op.self, op.args.unit_type) # {} =>
               /\ ret.unit \in NotExceeding(op.type, op.self, op.args.unit_type)
               /\ \A unit \in NotExceeding(op.type, op.self, op.args.unit_type) :
                      Le(Magnitude(op.type, unit), Magnitude(op.type, ret.unit))
        /\ op.self = FromInt(15000000) =>
               ret.unit = IF op.args.unit_type = "Decimal" THEN Mega(op.type) ELSE Mebi(op.type)
        /\ (op.self = FromInt(123 * 1024) /\ op.args.unit_type = "Decimal") =>
               ret.unit = Kilo(op.type)

\* C19 happens: between 1000^8 and 1024^8 the yotta unit is chosen for Both
C19_BetweenYottaAndYobi ==
    /\ op.name = "get_appropriate_unit"
    /\ op.type = "Bit"
    /\ op.self = Sub(Pow2Table[80], One)
    /\ op.args.unit_type = "Both"
    /\ ret.unit = "Ybit"

\* C20: the selection is monotonic: every smaller value of the same type
\* gets, for the same unit type, a unit whose magnitude is not larger than
\* the magnitude of the unit chosen for this value.
C20_SelectionIsMonotonic ==
    op.name = "get_appropriate_unit" =>
        \A m1 \in AppropriateSizes :
            Lt(m1, op.self) =>
                Le(Magnitude(op.type, get_appropriate_unit(op.type, m1, op.args.unit_type).unit),
                   Magnitude(op.type, ret.unit))

\* C20 happens: the unit changes between 1000^8 - 1 and 1000^8
C20_UnitStepsUp ==
    /\ op.name = "get_appropriate_unit"
    /\ op.type = "Byte"
    /\ op.self = Pow10(24)
    /\ op.args.unit_type = "Decimal"
    /\ ret.unit = "YB"
    /\ get_appropriate_unit("Byte", Sub(Pow10(24), One), "Decimal").unit = "ZB"

\* x >= 1.0
f64_ge_one(x) == x.m # Zero /\ x.e >= -(F64_MANTISSA_DIGITS - 1)

\* C21 as the specification has it: the adjusted value that
\* get_appropriate_unit returns is never below 1, for every magnitude in
\* [0, MAX] and every unit type.
C21_ValueNeverBelowOne ==
    op.name = "get_appropriate_unit" => f64_ge_one(ret.value)

\* C21: the adjusted value that get_appropriate_unit returns is at least 1
\* exactly when the magnitude is not zero; the magnitude 0 gives the value 0
\* in the unit of the fallback. A multiple that is chosen never exceeds the
\* magnitude.
C21_ValueBelowOneOnlyForZero ==
    op.name = "get_appropriate_unit" =>
        /\ f64_ge_one(ret.value) <=> op.self # Zero
        /\ op.self = Zero => ret.value = F64_ZERO
        /\ ret.unit \in Multiples(op.type) => Le(Magnitude(op.type, ret.unit), op.self)

\* C21 happens: one below 1024, the value in the kilo unit is 1.023
C21_JustBelowKibi ==
    /\ op.name = "get_appropriate_unit"
    /\ op.type = "Byte"
    /\ op.self = FromInt(1023)
    /\ op.args.unit_type = "Both"
    /\ ret.unit = "KB"
    /\ f64_ge_one(ret.value)
    /\ ret.value # F64(Pow2Table[F64_MANTISSA_DIGITS - 1], -(F64_MANTISSA_DIGITS - 1))

\* C22: below every multiple that the unit type admits, get_appropriate_unit
\* returns the base unit of the type of the value with the magnitude as the
\* value: Unit::Bit and the number of bits for a Bit, Unit::B and the number
\* of bytes for a Byte.
C22_FallsBackToOwnBaseUnit ==
    (op.name = "get_appropriate_unit"
        /\ NotExceeding(op.type, op.self, op.args.unit_type) = {}) =>
        /\ ret.unit = BaseUnit(op.type)
        /\ ret.value = u128_as_f64(op.self)

(***************************************************************************)
(* Decimal::from_f64: the 53 bits of the double in a register of 96 bits,  *)
(* the power of two moved to a power of ten, and the digits beyond the     *)
(* precision of a double removed                                           *)
(***************************************************************************)
MAX_PRECISION == 28

\* the register and the two exponents: the value is bits * 5^exponent5 * 10^exponent10
Base2(bits, exponent5, exponent10) ==
    [bits |-> bits, exponent5 |-> exponent5, exponent10 |-> exponent10]

IsEven(bits) == bits = Zero \/ bits[1] % 2 = 0

\* div_by_u32(bits, 10) followed by add_one_internal when the remainder is 5 or more
div10_round(bits) ==
    IF bits # Zero /\ bits[1] >= 5 THEN Add(ShiftDown(bits, 1), One) ELSE ShiftDown(bits, 1)

\* while exponent5 > 0: an even register is halved; an odd one is multiplied
\* by 5, or halved with the loss of its last bit when the product overflows
exponent5_down(st) ==
    IF st.exponent5 <= 0 THEN st
    ELSE IF IsEven(st.bits)
         THEN Base2(DivSmall(st.bits, 2).q, st.exponent5 - 1, st.exponent10 + 1)
    ELSE IF Le(MulSmall(st.bits, 5), MANTISSA_MAX)
         THEN Base2(MulSmall(st.bits, 5), st.exponent5 - 1, st.exponent10)
    ELSE Base2(DivSmall(st.bits, 2).q, st.exponent5 - 1, st.exponent10 + 1)

\* while exponent5 < 0: the register is doubled while its top bit is free,
\* and divided by 5 otherwise
exponent5_up(st) ==
    IF st.exponent5 >= 0 THEN st
    ELSE IF Lt(st.bits, Pow2Table[95])
         THEN Base2(MulSmall(st.bits, 2), st.exponent5 + 1, st.exponent10 - 1)
    ELSE Base2(DivSmall(st.bits, 5).q, st.exponent5 + 1, st.exponent10)

\* while exponent10 > 0: the register is multiplied by 10; None on overflow
exponent10_down(st) ==
    IF st.exponent10 <= 0 THEN st
    ELSE IF Le(MulSmall(st.bits, 10), MANTISSA_MAX)
         THEN Base2(MulSmall(st.bits, 10), st.exponent5, st.exponent10 - 1)
    ELSE None

\* while exponent10 < -MAX_PRECISION: the register is divided by 10 and rounded
exponent10_up(st) ==
    IF st.exponent10 >= -MAX_PRECISION THEN st
    ELSE IF ShiftDown(st.bits, 1) = Zero THEN Base2(Zero, st.exponent5, 0)
    ELSE Base2(div10_round(st.bits), st.exponent5, st.exponent10 + 1)

\* remove_excess_bits: while exponent10 < 0 and a bit above the 52nd is set
remove_excess(st) ==
    IF st.exponent10 >= 0 \/ Lt(st.bits, Pow2Table[52]) THEN st
    ELSE Base2(div10_round(st.bits), st.exponent5, st.exponent10 + 1)

\* the multiples of 10 are removed from the representation
remove_tens(st) ==
    IF st.exponent10 >= 0 \/ (st.bits # Zero /\ st.bits[1] # 0) THEN st
    ELSE Base2(ShiftDown(st.bits, 1), st.exponent5, st.exponent10 + 1)

base2_step(st, loop) ==
    IF st = None THEN None
    ELSE CASE loop = 1 -> exponent5_down(st)
           [] loop = 2 -> exponent5_up(st)
           [] loop = 3 -> exponent10_down(st)
           [] loop = 4 -> exponent10_up(st)
           [] loop = 5 -> remove_excess(st)
           [] loop = 6 -> remove_tens(st)

\* n turns of one of the loops; a turn after the end of the loop changes
\* nothing, and the turns are halved so that the evaluation nests to the
\* logarithm of n
RECURSIVE base2_turns(_, _, _)
base2_turns(st, loop, n) ==
    IF st = None \/ n = 0 THEN st
    ELSE IF n = 1 THEN base2_step(st, loop)
    ELSE base2_turns(base2_turns(st, loop, n \div 2), loop, n - (n \div 2))

\* a loop to its end: no loop takes more turns than the distance of its exponent
base2_loop(st, loop) ==
    IF st = None THEN None
    ELSE base2_turns(st, loop,
                     CASE loop = 1 -> Max(st.exponent5, 0)
                       [] loop = 2 -> Max(-st.exponent5, 0)
                       [] loop = 3 -> Max(st.exponent10, 0)
                       [] loop = 4 -> Max(-MAX_PRECISION - st.exponent10, 0)
                       [] OTHER -> Max(-st.exponent10, 0))

base2_result(st) == IF st = None THEN None ELSE Some(Dec(st.bits, -st.exponent10))

base2_to_decimal(bits, exponent2) ==
    base2_result(
        base2_loop(base2_loop(base2_loop(base2_loop(base2_loop(base2_loop(
            Base2(bits, -exponent2, exponent2), 1), 2), 3), 4), 5), 6))

Decimal_from_f64(n) == IF n = F64_ZERO THEN Some(Decimal_ZERO) ELSE base2_to_decimal(n.m, n.e)

(***************************************************************************)
(* Bit::from_f64_with_unit and AdjustedBit::get_bit                        *)
(***************************************************************************)
from_decimal_with_unit_option(size, unit) ==
    IF size.some THEN Bit_from_decimal_with_unit(size.v, unit) ELSE None

Bit_from_f64_with_unit(size, unit) == from_decimal_with_unit_option(Decimal_from_f64(size), unit)

\* .unwrap() of an Option<Bit>: the Bit, or a panic on None
unwrap(r) == IF r = Panic \/ ~r.some THEN Panic ELSE Obj("Bit", r.v)

AdjustedBit_get_bit(self) == unwrap(Bit_from_f64_with_unit(self.value, self.unit))

\* a call that came back with v and did not panic
Returned(v) == [returned |-> v]

\* s.eq(&o) on the two Bits; the unwrap of either get_bit may have panicked
Bit_eq(s, o) == IF s = Panic \/ o = Panic THEN Panic ELSE Returned(s = o)

\* s.cmp(&o)
Bit_cmp(s, o) ==
    IF s = Panic \/ o = Panic THEN Panic
    ELSE Returned(CASE Lt(s.v, o.v) -> "Less" [] s = o -> "Equal" [] OTHER -> "Greater")

\* impl PartialEq for AdjustedBit: eq
AdjustedBit_eq(self, other) == Bit_eq(AdjustedBit_get_bit(self), AdjustedBit_get_bit(other))

\* impl Ord for AdjustedBit: cmp
AdjustedBit_cmp(self, other) == Bit_cmp(AdjustedBit_get_bit(self), AdjustedBit_get_bit(other))

(***************************************************************************)
(* SpecAdjusted: a Bit is built, adjusted to a unit, and the adjusted      *)
(* value is turned back into a Bit or compared with another one            *)
(***************************************************************************)
AdjustedSizes ==
    {Zero, One, FromInt(8), FromInt(500), FromInt(1000), FromInt(1024),
     FromInt(1555000), FromInt(15000000), Add(Pow2Table[53], One), Pow10(24), Pow2Table[80], MulSmall(Pow10(24), 125),
     Sub(MulSmall(Pow10(24), 125), One), Sub(Pow10(27), FromInt(1000)), MAX}

\* the second operand of a comparison is the same Bit in one of these units
OtherUnits == {"B", "Kbit"}

get_adjusted_unit(type, self, unit) ==
    IF type = "Bit" THEN Bit_get_adjusted_unit(self, unit) ELSE Byte_get_adjusted_unit(self, unit)

GetAdjustedUnit ==
    /\ nops = 1
    /\ \E unit \in Unit :
           /\ ret' = get_adjusted_unit(obj.type, obj.v, unit)
           /\ op' = Op("get_adjusted_unit", obj.type, obj.v, [unit |-> unit])
    /\ nops' = nops + 1
    /\ UNCHANGED obj

GetBit ==
    /\ nops = 2
    /\ op.type = "Bit"
    /\ op.name \in {"get_adjusted_unit", "get_appropriate_unit"}
    /\ ret' = AdjustedBit_get_bit(ret)
    /\ op' = Op("get_bit", "Bit", obj.v, [adjusted |-> ret, from |-> op.name])
    /\ nops' = nops + 1
    /\ UNCHANGED obj

\* a == b on the adjusted value and the same Bit adjusted to another unit
AdjustedEq ==
    /\ nops = 2
    /\ op.type = "Bit"
    /\ op.name = "get_adjusted_unit"
    /\ \E unit \in OtherUnits :
           /\ op' = Op("eq", "Bit", obj.v,
                       [adjusted |-> ret, other |-> Bit_get_adjusted_unit(obj.v, unit)])
           /\ ret' = AdjustedBit_eq(ret, op'.args.other)
    /\ nops' = nops + 1
    /\ UNCHANGED obj

\* a.cmp(&b), which a < b calls, on the same operands
AdjustedCmp ==
    /\ nops = 2
    /\ op.type = "Bit"
    /\ op.name = "get_adjusted_unit"
    /\ \E unit \in OtherUnits :
           /\ op' = Op("cmp", "Bit", obj.v,
                       [adjusted |-> ret, other |-> Bit_get_adjusted_unit(obj.v, unit)])
           /\ ret' = AdjustedBit_cmp(ret, op'.args.other)
    /\ nops' = nops + 1
    /\ UNCHANGED obj

NextAdjusted ==
    \/ FromU128(AdjustedSizes)
    \/ GetAdjustedUnit
    \/ GetAppropriateUnit
    \/ GetBit
    \/ AdjustedEq
    \/ AdjustedCmp

SpecAdjusted == Init /\ [][NextAdjusted]_vars

\* C23: an adjusted value converts back to the Bit it came from: when the
\* Bit is an exact multiple of the magnitude in bits of the unit - Unit::Bit
\* and Unit::B included - get_adjusted_unit(unit) has the value
\* b / bits(unit), get_bit() gives the Bit back, and the adjusted values of
\* the same Bit in two such units compare equal.
C23_AdjustedConvertsBack ==
    /\ (op.name = "get_adjusted_unit" /\ op.type = "Bit"
          /\ Mod(op.self, as_bits_u128(op.args.unit)) = Zero
          /\ Lt(Div(op.self, as_bits_u128(op.args.unit)), Pow2Table[F64_MANTISSA_DIGITS]))
           => ret.value = u128_as_f64(Div(op.self, as_bits_u128(op.args.unit)))
    /\ (op.name = "get_bit" /\ op.args.from = "get_adjusted_unit"
          /\ Mod(op.self, as_bits_u128(op.args.adjusted.unit)) = Zero)
           => ret = Obj("Bit", op.self)
    /\ (op.name = "eq"
          /\ Mod(op.self, as_bits_u128(op.args.adjusted.unit)) = Zero
          /\ Mod(op.self, as_bits_u128(op.args.other.unit)) = Zero)
           => ret = Returned(TRUE)

\* C30: AdjustedBit::get_bit and the operators ==, < and cmp that call it
\* never panic on an adjusted value that get_adjusted_unit (for any unit,
\* Unit::Bit and Unit::B included) or get_appropriate_unit made from a Bit
\* with a magnitude in [0, MAX]: the magnitude that is rebuilt lies in
\* [0, MAX].
C30_GetBitNeverPanics ==
    op.name \in {"get_bit", "eq", "cmp"} =>
        /\ ret # Panic
        /\ op.name = "get_bit" => Le(ret.v, MAX)
(***************************************************************************)
(* SpecFormat: a Bit is built and written with {:#} in a width, with an    *)
(* alignment and a sign flag.                                              *)
(***************************************************************************)
FormatSizes ==
    {Zero, One, FromInt(1000), FromInt(10000), FromInt(10240), FromInt(3211776),
     Pow2(80), Sub(MAX, One)}

\* the widths asked for: none, and widths below and above the natural length
Widths == {None} \cup {Some(w) : w \in {0, 2, 4, 5, 6, 10, 12}}

\* {:#}, {:-#}, {:+#}, each in a width with an alignment, and with .0
WidthFormats ==
    {Formatter(TRUE, precision, sign = "+", sign = "-", width, align) :
        precision \in {None, Some(0)}, sign \in {"", "+", "-"},
        width \in Widths, align \in {"", "<", "^", ">"}}

\* format!: Display::fmt writes into a String
FormatInWidth ==
    /\ nops = 1
    /\ obj.type = "Bit"
    /\ \E f \in WidthFormats :
           /\ ret' = Bit_fmt(obj.v, f)
           /\ op' = Op("fmt", "Bit", obj.v, [f |-> f])
           /\ nops' = nops + 1
           /\ UNCHANGED obj

NextFormat ==
    \/ FromU128(FormatSizes)
    \/ FormatInWidth

SpecFormat == Init /\ [][NextFormat]_vars

\* the numeric part and the unit symbol that {:#} writes for a magnitude
Written(self, f) ==
    Bit_get_recoverable_unit(self, FALSE, IF f.precision.some THEN f.precision.v ELSE 3)

NumericPart(r) == Decimal_to_string(Decimal_normalize(r.value))

UnitSymbol(r) == as_str(r.unit)

\* the spaces between the numeric part and the unit symbol
Separator(f, symbol) ==
    CASE f.sign_plus -> Spaces(4 - Len(symbol))
      [] f.sign_minus -> << >>
      [] OTHER -> Spaces(1)

\* the length asked for: the width, when it is above the natural length
LengthInWidth(f, natural) == Max(IF f.width.some THEN f.width.v ELSE 0, natural)

\* what the claim describes: the numeric part, the padding that brings the
\* whole to the width - before the numeric part for the right alignment,
\* after it otherwise -, the separator and the unit symbol
Described(value, separator, symbol, padding, f) ==
    (IF f.align = ">" THEN padding \o value ELSE value \o padding) \o separator \o symbol

\* out is the numeric part and the unit symbol as the claim describes them
IsDescribed(out, value, separator, symbol, f) ==
    /\ Len(out) = LengthInWidth(f, Len(value) + Len(separator) + Len(symbol))
    /\ out = Described(value, separator, symbol,
                       Spaces(Len(out) - (Len(value) + Len(separator) + Len(symbol))), f)

WrittenIsDescribed(out, r, f) ==
    /\ r # Panic
    /\ IsDescribed(out, NumericPart(r), Separator(f, UnitSymbol(r)), UnitSymbol(r), f)

\* C28: a Bit written with {:#} in a width w has the length max(w, natural
\* length), the natural length being that of the numeric part, the separator
\* and the unit symbol; the padding stands next to the numeric part - after
\* it for the default, the left and the centre alignment, before it for the
\* right alignment - and never after the unit symbol; the separator is one
\* space, none with '-', and 4 - len(unit symbol) spaces with '+'.
C28_WidthPadsTheNumericPart ==
    (op.name = "fmt" /\ op.args.f.alternate) =>
        /\ ret # Panic
        /\ WrittenIsDescribed(ret.v, Written(op.self, op.args.f), op.args.f)

\* C28 happens: 10240 bits written with {:^+#10} are "10     Kib", the
\* padding after the numeric part
C28_CentreIsLeft ==
    /\ op.name = "fmt"
    /\ op.self = FromInt(10240)
    /\ op.args.f = Formatter(TRUE, None, TRUE, FALSE, Some(10), "^")
    /\ ret = Ok(<<"1", "0", " ", " ", " ", " ", " ", "K", "i", "b">>)

(***************************************************************************)
(* SpecSum: a Bit is built, added to and multiplied, and then asked for    *)
(* its recoverable unit or written with {:#}.                              *)
(***************************************************************************)
SumSizes == {One, FromInt(1024), MAX}

\* get_recoverable_unit on the Bit that the operations before it left
RecoverableUnitOfSum ==
    /\ nops \in 1..MaxOps
    /\ obj.type = "Bit"
    /\ \E allow_in_bytes \in BOOLEAN, precision \in {0, 3} :
           /\ ret' = Bit_get_recoverable_unit(obj.v, allow_in_bytes, precision)
           /\ op' = Op("get_recoverable_unit", "Bit", obj.v,
                       [allow_in_bytes |-> allow_in_bytes, precision |-> precision])
           /\ nops' = MaxOps + 1
           /\ UNCHANGED obj

\* format! with {:#} on the Bit that the operations before it left
FormatSum ==
    /\ nops \in 1..MaxOps
    /\ obj.type = "Bit"
    /\ \E precision \in {None, Some(0)} :
           /\ ret' = Bit_fmt(obj.v, Formatter(TRUE, precision, FALSE, FALSE, None, ""))
           /\ op' = Op("fmt", "Bit", obj.v,
                       [f |-> Formatter(TRUE, precision, FALSE, FALSE, None, "")])
           /\ nops' = MaxOps + 1
           /\ UNCHANGED obj

NextSum ==
    \/ FromU128(SumSizes)
    \/ AddOp
    \/ MultiplyOp
    \/ RecoverableUnitOfSum
    \/ FormatSum

SpecSum == Init /\ [][NextSum]_vars

\* C29: get_recoverable_unit, and Display with {:#}, which calls it, never
\* panic on a Bit obtained through the safe operations, the results of add
\* and multiply included.
C29_RecoverableUnitNeverPanics ==
    op.name \in {"get_recoverable_unit", "fmt"} => ret # Panic

====
